---------------------------- MODULE Spec2Model ----------------------------
(***************************************************************************)
(* Model of moat_temp_hum_ble: the BLE advertisement parser                *)
(* (temp_hum_advertisement_parser.py), the per-device aggregator           *)
(* (sensor_device.py) and the two threads of sensor.py that share it: the  *)
(* advertisement callback handle_meta_event and the periodic               *)
(* report_device_data.                                                     *)
(*                                                                         *)
(* Conventions.  A bytes object is a sequence of naturals 0..255; Python   *)
(* index i is TLA+ index i+1.  An Optional value is a sequence of length   *)
(* at most one: None is <<>>, the value v is <<v>>.  A float is an exact   *)
(* fraction [n |-> numerator, d |-> denominator] with d > 0.               *)
(***************************************************************************)
EXTENDS Integers, Sequences, FiniteSets, TLC

VARIABLES
    \* ---- handle_meta_event (HCISocketPoller thread) ----
    hci_data,               \* hci_packet.data of the report being handled
    brand,                  \* curr_wrapper.brand
    parsed_advertisement,   \* result of parse_ble_advertisement
    cbPc,                   \* position of the callback thread
    cbTmp,                  \* value loaded by "self._num_measurements += 1"
    \* ---- the device wrapper ----
    sensorDevice,           \* curr_wrapper.sensorDevice, a SensorDevice
    hassEntities,           \* curr_wrapper.hassEntities
    config,                 \* the platform configuration
    \* ---- report_device_data (SyncWorker thread) ----
    rpPc,                   \* position of the reporting thread
    rpLocals,               \* its locals: temp_num, the means and medians,
                            \* curr_entity_index, the index of "for entity"
    \* ---- history, used only to state properties ----
    hist

vars == <<hci_data, brand, parsed_advertisement, cbPc, cbTmp,
          sensorDevice, hassEntities, config, rpPc, rpLocals, hist>>

-----------------------------------------------------------------------------
(* Python values *)

None == <<>>
Some(v) == <<v>>
IsNone(x) == Len(x) = 0
Val(x) == x[1]

Min2(a, b) == IF a <= b THEN a ELSE b

\* data[a:b] for a, b >= 0: a slice is clamped to the buffer, never an error.
PySlice(s, a, b) ==
    IF a >= b \/ a >= Len(s) THEN <<>>
    ELSE SubSeq(s, a + 1, Min2(b, Len(s)))

RECURSIVE BitAnd(_, _)
BitAnd(a, b) ==
    IF a = 0 \/ b = 0 THEN 0
    ELSE (a % 2) * (b % 2) + 2 * BitAnd(a \div 2, b \div 2)

RECURSIVE BitXor(_, _)
BitXor(a, b) ==
    IF a = 0 THEN b
    ELSE IF b = 0 THEN a
    ELSE (((a % 2) + (b % 2)) % 2) + 2 * BitXor(a \div 2, b \div 2)

RECURSIVE Pow2(_)
Pow2(k) == IF k = 0 THEN 1 ELSE 2 * Pow2(k - 1)

\* int(hex_string(b).replace(" ", ""), 16): the bytes read as one big-endian number.
RECURSIVE IntFromHex(_)
IntFromHex(b) ==
    IF Len(b) = 0 THEN 0
    ELSE 256 * IntFromHex(SubSeq(b, 1, Len(b) - 1)) + b[Len(b)]

\* int(x) of a non-negative or negative fraction: truncation towards zero.
PyInt(r) == IF r.n >= 0 THEN r.n \div r.d ELSE -((-r.n) \div r.d)

-----------------------------------------------------------------------------
(* const.py and the bleson constants the parser imports *)

MOAT == "MOAT"
GOVEE == "GOVEE"
DeviceBrand == {MOAT, GOVEE}

GAP_FLAGS == 1
GAP_NAME_COMPLETE == 9
GAP_SERVICE_DATA == 22
GAP_MFG_DATA == 255

HUMIDITY_MIN == [n |-> 0, d |-> 1]
HUMIDITY_MAX == [n |-> 999, d |-> 10]
DEFAULT_TEMP_RANGE_MIN == -45
DEFAULT_TEMP_RANGE_MAX == 70

\* a <= b on fractions with positive denominators
FracLe(a, b) == IF a.d = b.d THEN a.n <= b.n ELSE a.n * b.d <= b.n * a.d

-----------------------------------------------------------------------------
(* temp_hum_advertisement_parser.py: helper functions *)

twos_complement(n, w) ==
    IF BitAnd(n, Pow2(w - 1)) # 0 THEN n - Pow2(w) ELSE n

\* A faulty variant of rescale_clamped: the lower clamp is missing.
rescale_clamped_no_min(value, in_min, in_max, out_min, out_max) ==
    IF value >= in_max THEN [n |-> out_max, d |-> 1]
    ELSE [n |-> out_min * (in_max - in_min) + (out_max - out_min) * (value - in_min),
          d |-> in_max - in_min]

\* A faulty variant of decode_govee_temp: the sign bit is not cleared before
\* the division.
decode_govee_temp_bad(packet_value) ==
    IF BitAnd(packet_value, 8388608) # 0
    THEN [n |-> -(packet_value \div 1000), d |-> 10]
    ELSE [n |-> packet_value \div 1000, d |-> 10]

\* decode_govee_temp returns (x // 1000) / 10.0 or (x // 1000) / -10.0: the
\* result is given here in tenths of a degree, the fraction value/10.
decode_govee_temp(packet_value) ==
    IF BitAnd(packet_value, 8388608) # 0
    THEN [n |-> -(BitXor(packet_value, 8388608) \div 1000), d |-> 10]
    ELSE [n |-> packet_value \div 1000, d |-> 10]

RECURSIVE Reversed(_)
Reversed(s) ==
    IF Len(s) = 0 THEN <<>> ELSE Append(Reversed(Tail(s)), Head(s))

\* reverse_mac: None unless six bytes; else the octets in display order (the
\* "XX:XX:..." text is represented by that list of octets).
reverse_mac(mac_bytes) ==
    IF Len(mac_bytes) # 6 THEN None ELSE Some(Reversed(mac_bytes))

RECURSIVE little_endian_to_unsigned_int(_)
little_endian_to_unsigned_int(b) ==
    IF Len(b) = 0 THEN 0
    ELSE Head(b) + 256 * little_endian_to_unsigned_int(Tail(b))

rescale_clamped(value, in_min, in_max, out_min, out_max) ==
    IF value >= in_max THEN [n |-> out_max, d |-> 1]
    ELSE IF value <= in_min THEN [n |-> out_min, d |-> 1]
    ELSE [n |-> out_min * (in_max - in_min) + (out_max - out_min) * (value - in_min),
          d |-> in_max - in_min]

moat_s2_battery_voltage_to_percentage(battery_voltage_mvolts) ==
    rescale_clamped(battery_voltage_mvolts, 2760, 2820, 1, 100)

\* bleson's rssi_from_byte: the byte as a signed number; 127 ("not
\* available") and the reserved range 20..126 give None.
rssi_from_byte(b) ==
    LET rssi == IF b > 127 THEN b - 256 ELSE b
    IN  IF rssi >= 20 THEN None ELSE Some(rssi)

-----------------------------------------------------------------------------
(* temp_hum_advertisement_parser.py: TempHumAdvertisement *)

\* The object before __init__ assigns anything.  attrs is the set of instance
\* attributes that exist (what hasattr answers); a field outside attrs holds a
\* placeholder.  exc is the exception that ended the try block ("" for none)
\* and raised tells whether it left __init__.
NewObject ==
    [attrs |-> {}, mac |-> None, rssi |-> None, flags |-> 0, name |-> None,
     packet |-> None, temperature |-> None, humidity |-> None,
     battery |-> None, battery_millivolts |-> None, model |-> None,
     mfg_data |-> <<>>, exc |-> "", raised |-> FALSE]

HeaderAttrs ==
    {"rssi", "flags", "name", "packet", "temperature", "humidity",
     "battery", "battery_millivolts", "model"}

\* _mfg_data_check
mfg_data_check(self, data_length, flags) ==
    /\ "mfg_data" \in self.attrs
    /\ Len(self.mfg_data) = data_length
    /\ self.flags = flags

\* _mfg_data_service_uuid_check; the hex text of the first two bytes is
\* compared as the pair of bytes it spells.
mfg_data_service_uuid_check(self, service_uuid) ==
    /\ "mfg_data" \in self.attrs
    /\ Len(self.mfg_data) > 2
    /\ PySlice(self.mfg_data, 0, 2) = service_uuid

UUID_88EC == <<136, 236>>
UUID_0100 == <<1, 0>>
UUID_0010 == <<0, 16>>

\* A faulty variant of check_is_gvh5074: length 6 instead of 9.
check_is_gvh5074_len6(self) == mfg_data_check(self, 6, 6)

check_is_gvh5074(self) == mfg_data_check(self, 9, 6)

check_is_gvh5102(self) ==
    mfg_data_check(self, 8, 5) /\ mfg_data_service_uuid_check(self, UUID_0100)

\* A faulty variant of check_is_gvh5075_gvh5072: length 5 instead of 8, so
\* that mfg_data[6] is past the end.
check_is_gvh5075_gvh5072_len5(self) ==
    mfg_data_check(self, 5, 5) /\ mfg_data_service_uuid_check(self, UUID_88EC)

check_is_gvh5075_gvh5072(self) ==
    mfg_data_check(self, 8, 5) /\ mfg_data_service_uuid_check(self, UUID_88EC)

check_is_gvh5051(self) == mfg_data_check(self, 11, 6)

\* A faulty variant of check_is_moat_s2: the leading bytes are not compared.
check_is_moat_s2_no_uuid(self) == mfg_data_check(self, 20, 6)

check_is_moat_s2(self) ==
    mfg_data_check(self, 20, 6) /\ mfg_data_service_uuid_check(self, UUID_0010)

\* Lines 94-111: the address, the RSSI and the defaults.  data[-1] of an empty
\* buffer raises IndexError before any default is assigned.
InitHeader(data) ==
    LET o1 == [NewObject EXCEPT !.attrs = {"mac"},
                                !.mac = reverse_mac(PySlice(data, 3, 9))]
    IN  IF Len(data) = 0
        THEN [o1 EXCEPT !.exc = "IndexError"]
        ELSE [o1 EXCEPT !.attrs = {"mac"} \cup HeaderAttrs,
                        !.rssi = rssi_from_byte(data[Len(data)]),
                        !.flags = 6]

\* Lines 113-142: the walk over the GAP records, from Python position pos.
\* data[pos] and data[pos + 1] exist whenever pos < len(data) - 1.
RECURSIVE GapWalk(_, _, _)
GapWalk(data, pos, self) ==
    IF ~(pos < Len(data) - 1) THEN self
    ELSE
      LET length == data[pos + 1]
          gap_type == data[pos + 2]
          payload_offset == pos + 2
          payload_end == payload_offset + length - 1
          payload == PySlice(data, payload_offset, payload_end)
      IN  IF gap_type = GAP_FLAGS
          THEN IF Len(payload) = 0
               THEN [self EXCEPT !.exc = "IndexError"]
               ELSE GapWalk(data, pos + length + 1,
                            [self EXCEPT !.flags = payload[1]])
          ELSE IF gap_type = GAP_NAME_COMPLETE
          THEN IF \E i \in 1..Len(payload) : payload[i] > 127
               THEN [self EXCEPT !.exc = "ValueError"]
               ELSE GapWalk(data, pos + length + 1,
                            [self EXCEPT !.name = Some(payload)])
          ELSE IF gap_type = GAP_SERVICE_DATA \/ gap_type = GAP_MFG_DATA
          THEN GapWalk(data, pos + length + 1,
                       [self EXCEPT !.mfg_data = payload,
                                    !.attrs = @ \cup {"mfg_data"}])
          ELSE GapWalk(data, pos + length + 1, self)

\* Lines 113-142 once more, as the list of the iterations the loop makes from
\* Python position pos: what each one read and whether it raised.  The loop
\* ends when its condition fails or with the iteration that raises.
RECURSIVE GapWalkSteps(_, _)
GapWalkSteps(data, pos) ==
    IF ~(pos < Len(data) - 1) THEN <<>>
    ELSE
      LET length == data[pos + 1]
          gap_type == data[pos + 2]
          payload_offset == pos + 2
          payload_end == payload_offset + length - 1
          payload == PySlice(data, payload_offset, payload_end)
          raised ==
              IF gap_type = GAP_FLAGS /\ Len(payload) = 0 THEN "IndexError"
              ELSE IF /\ gap_type = GAP_NAME_COMPLETE
                      /\ \E i \in 1..Len(payload) : payload[i] > 127
              THEN "ValueError"
              ELSE ""
          step == [pos |-> pos, length |-> length, gap_type |-> gap_type,
                   payload_offset |-> payload_offset,
                   payload_end |-> payload_end, raised |-> raised]
      IN  IF raised # "" THEN <<step>>
          ELSE <<step>> \o GapWalkSteps(data, pos + length + 1)

\* The Python indices of data an iteration reads: data[pos], data[pos + 1]
\* and the part of the slice data[payload_offset:payload_end] that exists.
IndicesRead(data, step) ==
    {step.pos, step.pos + 1}
    \cup step.payload_offset .. (Min2(step.payload_end, Len(data)) - 1)

\* Lines 149-162
DecodeMoatS2(self) ==
    LET mv == little_endian_to_unsigned_int(PySlice(self.mfg_data, 16, 18))
    IN  [self EXCEPT
           !.temperature =
               Some([n |-> -4685 * 16384
                           + 4393 * little_endian_to_unsigned_int(
                                        PySlice(self.mfg_data, 12, 14)),
                     d |-> 1638400]),
           !.humidity =
               Some([n |-> -6 * 65536
                           + 125 * little_endian_to_unsigned_int(
                                       PySlice(self.mfg_data, 14, 16)),
                     d |-> 65536]),
           !.battery_millivolts = Some(mv),
           !.battery = Some(PyInt(moat_s2_battery_voltage_to_percentage(mv))),
           !.packet = Some([str |-> PySlice(self.mfg_data, 8, 18)])]

\* Lines 165-170 (first = 3, battery index 6) and 172-177 (first = 4, battery
\* index 7).  The packet, the temperature and the humidity are assigned before
\* mfg_data[batt_index] is read; that read raises IndexError past the end.
DecodeGoveePacked(self, first, batt_index, model) ==
    LET packet == IntFromHex(PySlice(self.mfg_data, first, first + 3))
        o1 == [self EXCEPT !.packet = Some([int |-> packet]),
                           !.temperature = Some(decode_govee_temp(packet)),
                           !.humidity = Some([n |-> packet % 1000, d |-> 10])]
    IN  IF batt_index >= Len(self.mfg_data)
        THEN [o1 EXCEPT !.exc = "IndexError"]
        ELSE [o1 EXCEPT !.battery = Some(self.mfg_data[batt_index + 1]),
                        !.model = Some(model)]

\* Lines 179-188.  mfg_data_5074 is the hex text of 4 bytes b0 b1 b2 b3;
\* temp_lsb spells b1 b0 and hum_lsb spells b3 b2.  int("", 16) and a missing
\* mfg_data[7] raise.
DecodeGoveeH5074(self) ==
    LET b == PySlice(self.mfg_data, 3, 7)
        temp_lsb == Reversed(PySlice(b, 0, 2))
        hum_lsb == Reversed(PySlice(b, 2, 4))
        o1 == [self EXCEPT !.packet = Some([str |-> temp_lsb \o hum_lsb])]
    IN  IF Len(hum_lsb) = 0 \/ Len(temp_lsb) = 0
        THEN [o1 EXCEPT !.exc = "ValueError"]
        ELSE LET o2 == [o1 EXCEPT
                          !.humidity = Some([n |-> IntFromHex(hum_lsb), d |-> 100]),
                          !.temperature =
                              Some([n |-> twos_complement(IntFromHex(temp_lsb), 16),
                                    d |-> 100])]
             IN  IF 7 >= Len(self.mfg_data)
                 THEN [o2 EXCEPT !.exc = "IndexError"]
                 ELSE [o2 EXCEPT !.battery = Some(self.mfg_data[8]),
                                 !.model = Some("Govee H5074/H5051")]

\* Lines 144-190: the vendor layouts, in the order the code tries them.
DecodeVendor(self, brnd) ==
    IF brnd = MOAT /\ check_is_moat_s2(self) THEN DecodeMoatS2(self)
    ELSE IF brnd = GOVEE
    THEN IF check_is_gvh5075_gvh5072(self)
         THEN DecodeGoveePacked(self, 3, 6, "Govee H5072/H5075")
         ELSE IF check_is_gvh5102(self)
         THEN DecodeGoveePacked(self, 4, 7, "Govee H5101/H5102")
         ELSE IF check_is_gvh5074(self) \/ check_is_gvh5051(self)
         THEN DecodeGoveeH5074(self)
         ELSE self
    ELSE self

\* A faulty variant of the except clause: IndexError is not named.
CaughtOnlyValueError == {"ValueError"}

\* The exceptions the try block of __init__ catches (line 200).
CaughtExceptions == {"ValueError", "IndexError"}

\* __init__, lines 85-201: the walk and the decode run only while no exception
\* has ended the try block; an exception the except clause does not name
\* leaves the constructor.
TempHumAdvertisement(data, brnd) ==
    LET o1 == InitHeader(data)
        o2 == IF o1.exc # "" THEN o1 ELSE GapWalk(data, 10, o1)
        o3 == IF o2.exc # "" THEN o2 ELSE DecodeVendor(o2, brnd)
    IN  [o3 EXCEPT !.raised = (o3.exc # "" /\ o3.exc \notin CaughtExceptions)]

parse_ble_advertisement(data, brnd) == TempHumAdvertisement(data, brnd)

-----------------------------------------------------------------------------
(* sensor_device.py: SensorDevice *)

\* reset, lines 76-84, one assignment at a time (k = 1..7) and as a whole.
reset_step(self, k) ==
    CASE k = 1 -> [self EXCEPT !.num_measurements = 0]
      [] k = 2 -> [self EXCEPT !.rssi_measurements = <<>>]
      [] k = 3 -> [self EXCEPT !.temperature_measurements = <<>>]
      [] k = 4 -> [self EXCEPT !.humidity_measurements = <<>>]
      [] k = 5 -> [self EXCEPT !.battery_percentage_measurements = <<>>]
      [] k = 6 -> [self EXCEPT !.battery_millivolt_measurements = <<>>]
      [] k = 7 -> [self EXCEPT !.latest_raw_data_str = None]

\* A faulty variant of reset: the detected model is cleared too.
reset_clears_model(self) ==
    [detected_model |-> None, num_measurements |-> 0,
     rssi_measurements |-> <<>>, temperature_measurements |-> <<>>,
     humidity_measurements |-> <<>>,
     battery_percentage_measurements |-> <<>>,
     battery_millivolt_measurements |-> <<>>,
     latest_raw_data_str |-> None] @@ self

reset(self) ==
    reset_step(reset_step(reset_step(reset_step(reset_step(reset_step(
        reset_step(self, 1), 2), 3), 4), 5), 6), 7)

\* __init__, lines 62-74
NewSensorDevice(mac, device_params) ==
    reset([mac |-> mac,
           detected_model |-> None,
           desc |-> device_params.description,
           report_fahrenheit |-> device_params.report_fahrenheit,
           decimal_places |-> device_params.decimal_places,
           log_spikes |-> device_params.log_spikes,
           temp_range_min |-> device_params.temp_range_min,
           temp_range_max |-> device_params.temp_range_max,
           calibrate_temp |-> device_params.calibrate_temp,
           calibrate_humidity |-> device_params.calibrate_humidity,
           num_measurements |-> 0,
           rssi_measurements |-> <<>>,
           temperature_measurements |-> <<>>,
           humidity_measurements |-> <<>>,
           battery_percentage_measurements |-> <<>>,
           battery_millivolt_measurements |-> <<>>,
           latest_raw_data_str |-> None])

\* A faulty variant of append_rssi: the sign is not tested.
append_rssi_any(self, value) ==
    IF ~IsNone(value)
    THEN [self EXCEPT !.rssi_measurements = Append(@, Val(value))]
    ELSE self

\* append_rssi, lines 164-167; None is not an int.
append_rssi(self, value) ==
    IF ~IsNone(value) /\ Val(value) < 0
    THEN [self EXCEPT !.rssi_measurements = Append(@, Val(value))]
    ELSE self

\* set_model, lines 251-252
set_model(self, model) == [self EXCEPT !.detected_model = model]

\* A faulty variant of update_temperature: the upper limit is not compared.
update_temperature_no_max(self, temperature) ==
    IF /\ ~IsNone(temperature)
       /\ FracLe([n |-> self.temp_range_min, d |-> 1], Val(temperature))
    THEN [self EXCEPT !.temperature_measurements = Append(@, Val(temperature))]
    ELSE self

\* update, lines 263-269
update_temperature(self, temperature) ==
    IF /\ ~IsNone(temperature)
       /\ FracLe([n |-> self.temp_range_min, d |-> 1], Val(temperature))
       /\ FracLe(Val(temperature), [n |-> self.temp_range_max, d |-> 1])
    THEN [self EXCEPT !.temperature_measurements = Append(@, Val(temperature))]
    ELSE self

\* update, lines 271-275
update_humidity(self, humidity) ==
    IF /\ ~IsNone(humidity)
       /\ FracLe(HUMIDITY_MIN, Val(humidity))
       /\ FracLe(Val(humidity), HUMIDITY_MAX)
    THEN [self EXCEPT !.humidity_measurements = Append(@, Val(humidity))]
    ELSE self

\* update, lines 277-285
update_battery(self, battery_percentage) ==
    IF /\ ~IsNone(battery_percentage)
       /\ 0 <= Val(battery_percentage)
       /\ Val(battery_percentage) <= 100
    THEN [self EXCEPT !.battery_percentage_measurements =
                          Append(@, Val(battery_percentage))]
    ELSE self

\* update, lines 287-289
update_millivolts(self, battery_millivolts) ==
    IF ~IsNone(battery_millivolts)
    THEN [self EXCEPT !.battery_millivolt_measurements =
                          Append(@, Val(battery_millivolts))]
    ELSE self

RECURSIVE DecDigits(_)
DecDigits(k) ==
    IF k < 10 THEN <<k>> ELSE Append(DecDigits(k \div 10), k % 10)

\* str(packet): the text "None", the decimal digits of an int, or the str
\* itself.
PyStr(packet) ==
    IF IsNone(packet) THEN [lit |-> "None"]
    ELSE IF "int" \in DOMAIN Val(packet)
    THEN [dec |-> DecDigits(Val(packet).int)]
    ELSE Val(packet)

\* update, line 291
update_raw(self, packet) ==
    [self EXCEPT !.latest_raw_data_str = Some(PyStr(packet))]

\* update, line 292: "+= 1" loads the attribute, adds, and stores.
update_num_store(self, loaded) ==
    [self EXCEPT !.num_measurements = loaded + 1]

update_tail(self, packet) ==
    LET s1 == update_raw(self, packet)
    IN  update_num_store(s1, s1.num_measurements)

\* A faulty variant of update: it returns when the temperature is rejected.
update_stop_on_spike(self, temperature, humidity, battery_percentage, battery_millivolts, packet) ==
    LET s1 == update_temperature(self, temperature)
    IN  IF s1 = self THEN self
        ELSE update_tail(
                 update_millivolts(
                     update_battery(update_humidity(s1, humidity),
                                    battery_percentage),
                     battery_millivolts),
                 packet)

\* update, lines 254-292, as one call with nothing interleaved.
update(self, temperature, humidity, battery_percentage, battery_millivolts, packet) ==
    update_tail(
        update_millivolts(
            update_battery(
                update_humidity(update_temperature(self, temperature), humidity),
                battery_percentage),
            battery_millivolts),
        packet)

-----------------------------------------------------------------------------
(* sensor_device.py: the reductions *)

FracAdd(a, b) ==
    IF a.d = b.d THEN [n |-> a.n + b.n, d |-> a.d]
    ELSE [n |-> a.n * b.d + b.n * a.d, d |-> a.d * b.d]

RECURSIVE FracSum(_)
FracSum(s) ==
    IF Len(s) = 1 THEN s[1] ELSE FracAdd(s[1], FracSum(Tail(s)))

RECURSIVE IntSum(_)
IntSum(s) == IF Len(s) = 0 THEN 0 ELSE s[1] + IntSum(Tail(s))

\* statistics.mean of a non-empty list of fractions
StsMean(s) == LET t == FracSum(s) IN [n |-> t.n, d |-> t.d * Len(s)]

\* the k-th smallest (k = 1..Len(s)) of a list of fractions
KthSmallest(s, k) ==
    LET below(i) == Cardinality({j \in 1..Len(s) :
                        \/ ~FracLe(s[i], s[j])
                        \/ (FracLe(s[i], s[j]) /\ FracLe(s[j], s[i]) /\ j < i)})
    IN  s[CHOOSE i \in 1..Len(s) : below(i) = k - 1]

\* statistics.median of a non-empty list: the middle element, or the mean of
\* the two middle ones.
StsMedian(s) ==
    IF Len(s) % 2 = 1 THEN KthSmallest(s, (Len(s) + 1) \div 2)
    ELSE StsMean(<<KthSmallest(s, Len(s) \div 2),
                   KthSmallest(s, (Len(s) \div 2) + 1)>>)

\* round(statistics.mean(ints)): to the nearest integer, a tie to the even one.
RoundMean(s) ==
    LET total == IntSum(s)
        q == total \div Len(s)
        r == total % Len(s)
    IN  IF 2 * r < Len(s) THEN q
        ELSE IF 2 * r > Len(s) THEN q + 1
        ELSE IF q % 2 = 0 THEN q ELSE q + 1

\* What lines 176-180 (and 199-203, 220-222, 239-241) do to an average avg:
\* celsius_to_fahrenheit when asked for, plus the calibration, rounded to
\* decimal_places unless that is None.  The three float operations are kept
\* as the record of their operands, in the order the code applies them.
Calibrated(avg, to_fahrenheit, calibrate, decimal_places) ==
    [avg |-> avg, celsius_to_fahrenheit |-> to_fahrenheit,
     plus |-> calibrate, round_to |-> decimal_places]

\* lines 169-188
mean_temperature(self) ==
    IF Len(self.temperature_measurements) = 0 THEN None
    ELSE Some(Calibrated(StsMean(self.temperature_measurements),
                         self.report_fahrenheit, self.calibrate_temp,
                         self.decimal_places))

\* lines 190-211
median_temperature(self) ==
    IF Len(self.temperature_measurements) = 0 THEN None
    ELSE Some(Calibrated(StsMedian(self.temperature_measurements),
                         self.report_fahrenheit, self.calibrate_temp,
                         self.decimal_places))

\* lines 213-230
mean_humidity(self) ==
    IF Len(self.humidity_measurements) = 0 THEN None
    ELSE Some(Calibrated(StsMean(self.humidity_measurements),
                         FALSE, self.calibrate_humidity, self.decimal_places))

\* lines 232-249
median_humidity(self) ==
    IF Len(self.humidity_measurements) = 0 THEN None
    ELSE Some(Calibrated(StsMedian(self.humidity_measurements),
                         FALSE, self.calibrate_humidity, self.decimal_places))

\* A faulty variant of battery_percentage: 0 for an empty list.
battery_percentage_zero(self) ==
    IF Len(self.battery_percentage_measurements) = 0 THEN Some(0)
    ELSE Some(RoundMean(self.battery_percentage_measurements))

\* lines 140-146
battery_percentage(self) ==
    IF Len(self.battery_percentage_measurements) = 0 THEN None
    ELSE Some(RoundMean(self.battery_percentage_measurements))

\* lines 148-154
battery_millivolts(self) ==
    IF Len(self.battery_millivolt_measurements) = 0 THEN None
    ELSE Some(RoundMean(self.battery_millivolt_measurements))

\* lines 156-162
rssi(self) ==
    IF Len(self.rssi_measurements) = 0 THEN None
    ELSE Some(RoundMean(self.rssi_measurements))

-----------------------------------------------------------------------------
(* Advertising reports fed to the model *)

\* Bytes 0-9 of a report: the report count, the ADV type, the address type, the
\* address in reverse byte order and the length of the GAP data.
ReportHeader(mac_le, gap_len) == <<1, 0, 0>> \o mac_le \o <<gap_len>>

GapRecord(gap_type, payload) == <<Len(payload) + 1, gap_type>> \o payload

Report(mac_le, records, rssi_byte) ==
    ReportHeader(mac_le, Len(records)) \o records \o <<rssi_byte>>

BigEndian3(v) == <<(v \div 65536) % 256, (v \div 256) % 256, v % 256>>
LittleEndian2(v) == <<v % 256, (v \div 256) % 256>>

PayloadH5075(packed, batt) == <<136, 236, 0>> \o BigEndian3(packed) \o <<batt, 0>>
PayloadH5102(packed, batt) == <<1, 0, 1, 1>> \o BigEndian3(packed) \o <<batt>>
PayloadH5074(t16, h16, batt) ==
    <<136, 236, 0>> \o LittleEndian2(t16) \o LittleEndian2(h16) \o <<batt, 2>>
PayloadMoatS2(t16, h16, mv) ==
    <<0, 16, 1, 2, 3, 4, 5, 6, 10, 11, 12, 13>>
        \o LittleEndian2(t16) \o LittleEndian2(h16) \o LittleEndian2(mv) \o <<7, 8>>

DeviceMacLE == <<6, 5, 4, 3, 2, 1>>
DeviceMac == Reversed(DeviceMacLE)
OtherMacLE == <<9, 5, 4, 3, 2, 1>>

-----------------------------------------------------------------------------
(* sensor.py: configuration and init_wrapper *)

\* const.py, lines 29-42.  decimal_places is CONF_DECIMALS when CONF_ROUNDING
\* is on (line 122).
DefaultConfig ==
    [report_fahrenheit |-> FALSE, rounding |-> TRUE, decimals |-> 2,
     log_spikes |-> TRUE, update_when_unavailable |-> TRUE,
     use_median |-> FALSE,
     temp_range_min |-> DEFAULT_TEMP_RANGE_MIN,
     temp_range_max |-> DEFAULT_TEMP_RANGE_MAX,
     temperature_entities |-> TRUE, humidity_entities |-> TRUE,
     battery_entities |-> FALSE, rssi_entities |-> FALSE,
     num_samples_entities |-> FALSE]

\* init_configured_devices, lines 121-125
DeviceParams(c) ==
    [report_fahrenheit |-> c.report_fahrenheit,
     decimal_places |-> IF c.rounding THEN Some(c.decimals) ELSE None,
     log_spikes |-> c.log_spikes,
     temp_range_min |-> c.temp_range_min,
     temp_range_max |-> c.temp_range_max,
     description |-> None,
     calibrate_temp |-> 0,
     calibrate_humidity |-> 0]

\* TempHumSensorEntity.__init__, lines 288-297
NewEntity(kind) ==
    [kind |-> kind, state |-> None, attrs |-> <<>>, scheduled |-> FALSE,
     enabled |-> TRUE]

\* A faulty variant of InitEntities: the battery entity is appended before the
\* RSSI entity.
InitEntities_battery_first(c) ==
    (IF c.temperature_entities THEN <<NewEntity("temperature")>> ELSE <<>>)
    \o (IF c.humidity_entities THEN <<NewEntity("humidity")>> ELSE <<>>)
    \o (IF c.battery_entities THEN <<NewEntity("battery")>> ELSE <<>>)
    \o (IF c.rssi_entities THEN <<NewEntity("rssi")>> ELSE <<>>)
    \o (IF c.num_samples_entities THEN <<NewEntity("num_samples")>> ELSE <<>>)

\* init_wrapper, lines 139-149: the entities, in the order they are appended.
InitEntities(c) ==
    (IF c.temperature_entities THEN <<NewEntity("temperature")>> ELSE <<>>)
    \o (IF c.humidity_entities THEN <<NewEntity("humidity")>> ELSE <<>>)
    \o (IF c.rssi_entities THEN <<NewEntity("rssi")>> ELSE <<>>)
    \o (IF c.battery_entities THEN <<NewEntity("battery")>> ELSE <<>>)
    \o (IF c.num_samples_entities THEN <<NewEntity("num_samples")>> ELSE <<>>)

\* d[k] = v on a dict
DictSet(d, k, v) ==
    [x \in (DOMAIN d) \cup {k} |-> IF x = k THEN v ELSE d[x]]

-----------------------------------------------------------------------------
(* sensor.py: handle_meta_event, on the HCISocketPoller thread *)

MaxPackets == 2

MaxTicks == 1

NoLocals ==
    [temp_num |-> 0, temperature_mean |-> None, temperature_median |-> None,
     humidity_mean |-> None, humidity_median |-> None,
     curr_entity_index |-> 0, entity_pos |-> 0, reset_k |-> 0]

CallbackReturn ==
    /\ cbPc' = "idle"
    /\ hci_data' = <<>>
    /\ parsed_advertisement' = NewObject

\* A faulty variant of ReceiveBody: the address is not compared.
ReceiveBody_any_address(data, limit) ==
    /\ cbPc = "idle"
    /\ hist.packets < limit
    /\ LET adv == parse_ble_advertisement(data, brand)
       IN  /\ hci_data' = data
           /\ parsed_advertisement' = adv
           /\ cbPc' = IF ~IsNone(adv.packet) THEN "u263" ELSE "l113"
    /\ UNCHANGED <<brand, cbTmp, sensorDevice, hassEntities, config, rpPc, rpLocals>>

\* Lines 92-105: a report arrives; one of another address is ignored, one of
\* the device's address is parsed.
ReceiveBody(data, limit) ==
    /\ cbPc = "idle"
    /\ hist.packets < limit
    /\ IF reverse_mac(PySlice(data, 3, 9)) = Some(sensorDevice.mac)
       THEN LET adv == parse_ble_advertisement(data, brand)
            IN  /\ hci_data' = data
                /\ parsed_advertisement' = adv
                /\ cbPc' = IF ~IsNone(adv.packet) THEN "u263" ELSE "l113"
       ELSE UNCHANGED <<hci_data, parsed_advertisement, cbPc>>
    /\ UNCHANGED <<brand, cbTmp, sensorDevice, hassEntities, config, rpPc, rpLocals>>

ReceiveUpTo(data, limit) ==
    /\ ReceiveBody(data, limit)
    /\ hist' = [hist EXCEPT !.packets = @ + 1]

Receive(data) == ReceiveUpTo(data, MaxPackets)

CallbackFrame == <<hci_data, brand, parsed_advertisement, hassEntities, config, rpPc, rpLocals>>

\* update, lines 263-269
UpdateTemperature ==
    /\ cbPc = "u263"
    /\ sensorDevice' = update_temperature(sensorDevice, parsed_advertisement.temperature)
    /\ hist' = [hist EXCEPT !.accepted =
                   @ + Len(sensorDevice'.temperature_measurements)
                     - Len(sensorDevice.temperature_measurements)]
    /\ cbPc' = "u272"
    /\ UNCHANGED <<cbTmp, CallbackFrame>>

\* update, lines 271-275
UpdateHumidity ==
    /\ cbPc = "u272"
    /\ sensorDevice' = update_humidity(sensorDevice, parsed_advertisement.humidity)
    /\ cbPc' = "u278"
    /\ UNCHANGED <<cbTmp, hist, CallbackFrame>>

\* update, lines 277-285
UpdateBattery ==
    /\ cbPc = "u278"
    /\ sensorDevice' = update_battery(sensorDevice, parsed_advertisement.battery)
    /\ cbPc' = "u288"
    /\ UNCHANGED <<cbTmp, hist, CallbackFrame>>

\* update, lines 287-289
UpdateMillivolts ==
    /\ cbPc = "u288"
    /\ sensorDevice' = update_millivolts(sensorDevice, parsed_advertisement.battery_millivolts)
    /\ cbPc' = "u291"
    /\ UNCHANGED <<cbTmp, hist, CallbackFrame>>

\* update, line 291
UpdateRaw ==
    /\ cbPc = "u291"
    /\ sensorDevice' = update_raw(sensorDevice, parsed_advertisement.packet)
    /\ cbPc' = "u292"
    /\ UNCHANGED <<cbTmp, hist, CallbackFrame>>

\* update, line 292: the load of self._num_measurements
UpdateNumLoad ==
    /\ cbPc = "u292"
    /\ cbTmp' = sensorDevice.num_measurements
    /\ cbPc' = "u292s"
    /\ UNCHANGED <<sensorDevice, hist, CallbackFrame>>

\* update, line 292: the store of the loaded value plus one
UpdateNumStore ==
    /\ cbPc = "u292s"
    /\ sensorDevice' = update_num_store(sensorDevice, cbTmp)
    /\ cbTmp' = 0
    /\ cbPc' = "l113"
    /\ hist' = [hist EXCEPT !.updates = @ + 1]
    /\ UNCHANGED CallbackFrame

\* Line 113: the RSSI is appended, measurement or not, and the callback returns.
AppendRssi ==
    /\ cbPc = "l113"
    /\ sensorDevice' = append_rssi(sensorDevice, parsed_advertisement.rssi)
    /\ CallbackReturn
    /\ UNCHANGED <<brand, cbTmp, hassEntities, config, rpPc, rpLocals, hist>>

-----------------------------------------------------------------------------
(* sensor.py: update_ble_loop and report_device_data, on a SyncWorker thread *)

\* A faulty variant of EntityIsUpdated: the test of line 210 is missing.
EntityIsUpdated_always(entities, i) == i < Len(entities)

\* Line 210, for the entity at Python index i
EntityIsUpdated(entities, i) ==
    config.update_when_unavailable \/ ~IsNone(entities[i + 1].state)

\* Lines 207-210: the first entity at or after Python index i that passes the
\* test of line 210, or Len(entities) when there is none.
RECURSIVE NextUpdatedEntity(_, _)
NextUpdatedEntity(entities, i) ==
    IF i >= Len(entities) THEN Len(entities)
    ELSE IF EntityIsUpdated(entities, i) THEN i
    ELSE NextUpdatedEntity(entities, i + 1)

\* Where report_device_data continues after the optional section number k
\* (1 temperature, 2 humidity, 3 RSSI, 4 battery, 5 number of samples): the
\* next section the configuration enables, else the loop of line 207.
RECURSIVE SectionFrom(_, _)
SectionFrom(k, entities) ==
    IF k = 1 /\ config.temperature_entities THEN "l175"
    ELSE IF k = 2 /\ config.humidity_entities THEN "l184"
    ELSE IF k = 3 /\ config.rssi_entities THEN "l193"
    ELSE IF k = 4 /\ config.battery_entities THEN "l198"
    ELSE IF k = 5 /\ config.num_samples_entities THEN "l203"
    ELSE IF k <= 5 THEN SectionFrom(k + 1, entities)
    ELSE IF NextUpdatedEntity(entities, 0) < Len(entities) THEN "l212"
    ELSE "l238"

ReporterFrame == <<hci_data, brand, parsed_advertisement, cbPc, cbTmp, config>>

\* entities[curr_entity_index].<field> = v; an index past the list raises
\* IndexError, which update_ble_loop does not catch.
IndexOk == rpLocals.curr_entity_index < Len(hassEntities)

\* update_ble_loop, lines 255-265: start_scanning raises RuntimeError or not;
\* when it raises, report_device_data is skipped and the next tick is scheduled.
TickScanFails ==
    /\ rpPc = "idle"
    /\ hist.ticks < MaxTicks
    /\ hist' = [hist EXCEPT !.ticks = @ + 1, !.scan_failed = TRUE]
    /\ UNCHANGED <<sensorDevice, hassEntities, rpPc, rpLocals, ReporterFrame>>

TickStart ==
    /\ rpPc = "idle"
    /\ hist.ticks < MaxTicks
    /\ rpPc' = "l167"
    /\ hassEntities' = [i \in 1..Len(hassEntities) |->
                           [hassEntities[i] EXCEPT !.scheduled = FALSE]]
    /\ hist' = [hist EXCEPT !.ticks = @ + 1, !.scan_failed = FALSE]
    /\ UNCHANGED <<sensorDevice, rpLocals, ReporterFrame>>

\* Line 167
ReadTempNum ==
    /\ rpPc = "l167"
    /\ rpLocals' = [NoLocals EXCEPT !.temp_num = sensorDevice.num_measurements]
    /\ rpPc' = SectionFrom(1, hassEntities)
    /\ UNCHANGED <<sensorDevice, hassEntities, hist, ReporterFrame>>

\* Line 175
ReadMeanTemperature ==
    /\ rpPc = "l175"
    /\ rpLocals' = [rpLocals EXCEPT !.temperature_mean = mean_temperature(sensorDevice)]
    /\ rpPc' = "l176"
    /\ UNCHANGED <<sensorDevice, hassEntities, hist, ReporterFrame>>

\* The state of a temperature or humidity entity, lines 177-179 and 186-188
WithMeanMedian(e, mean, median) ==
    [e EXCEPT !.attrs = DictSet(DictSet(@, "mean", mean), "median", median),
              !.state = IF config.use_median THEN median ELSE mean]

\* Lines 176-180
ReadMedianTemperature ==
    /\ rpPc = "l176"
    /\ LET median == median_temperature(sensorDevice)
           i == rpLocals.curr_entity_index
       IN  /\ rpLocals' = [rpLocals EXCEPT !.temperature_median = median,
                                           !.curr_entity_index = i + 1]
           /\ IF IndexOk
              THEN /\ hassEntities' =
                          [hassEntities EXCEPT ![i + 1] =
                              WithMeanMedian(@, rpLocals.temperature_mean, median)]
                   /\ rpPc' = SectionFrom(2, hassEntities')
              ELSE /\ rpPc' = "IndexError"
                   /\ UNCHANGED hassEntities
    /\ hist' = [hist EXCEPT !.counted =
                   @ + Len(sensorDevice.temperature_measurements)]
    /\ UNCHANGED <<sensorDevice, ReporterFrame>>

\* Line 184
ReadMeanHumidity ==
    /\ rpPc = "l184"
    /\ rpLocals' = [rpLocals EXCEPT !.humidity_mean = mean_humidity(sensorDevice)]
    /\ rpPc' = "l185"
    /\ UNCHANGED <<sensorDevice, hassEntities, hist, ReporterFrame>>

\* Lines 185-189
ReadMedianHumidity ==
    /\ rpPc = "l185"
    /\ LET median == median_humidity(sensorDevice)
           i == rpLocals.curr_entity_index
       IN  /\ rpLocals' = [rpLocals EXCEPT !.humidity_median = median,
                                           !.curr_entity_index = i + 1]
           /\ IF IndexOk
              THEN /\ hassEntities' =
                          [hassEntities EXCEPT ![i + 1] =
                              WithMeanMedian(@, rpLocals.humidity_mean, median)]
                   /\ rpPc' = SectionFrom(3, hassEntities')
              ELSE /\ rpPc' = "IndexError"
                   /\ UNCHANGED hassEntities
    /\ UNCHANGED <<sensorDevice, hist, ReporterFrame>>

\* Lines 193-194, 198-199 and 203-204: entities[curr_entity_index].state = v
SetStateStep(at, v, next_section) ==
    /\ rpPc = at
    /\ LET i == rpLocals.curr_entity_index
       IN  /\ rpLocals' = [rpLocals EXCEPT !.curr_entity_index = i + 1]
           /\ IF IndexOk
              THEN /\ hassEntities' = [hassEntities EXCEPT ![i + 1].state = v]
                   /\ rpPc' = SectionFrom(next_section, hassEntities')
              ELSE /\ rpPc' = "IndexError"
                   /\ UNCHANGED hassEntities
    /\ UNCHANGED <<sensorDevice, hist, ReporterFrame>>

ReadRssi == SetStateStep("l193", rssi(sensorDevice), 4)

ReadBattery == SetStateStep("l198", battery_percentage(sensorDevice), 5)

ReadNumSamples == SetStateStep("l203", Some(sensorDevice.num_measurements), 6)

\* One assignment to the attributes of the entity the loop of line 207 is at
AttrStep(at, key, v, next) ==
    /\ rpPc = at
    /\ LET pos == IF at = "l212"
                  THEN NextUpdatedEntity(hassEntities, rpLocals.entity_pos)
                  ELSE rpLocals.entity_pos
       IN  /\ rpLocals' = [rpLocals EXCEPT !.entity_pos = pos]
           /\ hassEntities' = [hassEntities EXCEPT ![pos + 1].attrs = DictSet(@, key, v)]
    /\ rpPc' = next
    /\ UNCHANGED <<sensorDevice, hist, ReporterFrame>>

\* Line 212
AttrLastRawData == AttrStep("l212", "last raw data", sensorDevice.latest_raw_data_str, "l213")

\* Line 213
AttrRssi == AttrStep("l213", "rssi", rssi(sensorDevice), "l214")

\* Line 214
AttrBatteryLevel == AttrStep("l214", "battery_level", battery_percentage(sensorDevice), "l218")

\* Line 218: hasattr of a dict never finds the key "battery mV", so the test is
\* whether device.battery_millivolts is not None.
TestBatteryMillivolts ==
    /\ rpPc = "l218"
    /\ rpPc' = IF ~IsNone(battery_millivolts(sensorDevice)) THEN "l219" ELSE "l220"
    /\ UNCHANGED <<sensorDevice, hassEntities, rpLocals, hist, ReporterFrame>>

\* Line 219
AttrBatteryMillivolts == AttrStep("l219", "battery mV", battery_millivolts(sensorDevice), "l220")

\* Lines 220-230: the count, the update of the entity's state in Home Assistant
\* (schedule_update_ha_state, for an entity that is enabled) and the step to
\* the next entity of the loop.
AttrNumMeasurements ==
    /\ rpPc = "l220"
    /\ LET pos == rpLocals.entity_pos
           key == IF config.use_median THEN "last median of" ELSE "last mean of"
           nxt == NextUpdatedEntity(hassEntities, pos + 1)
       IN  /\ hassEntities' =
                  [hassEntities EXCEPT
                      ![pos + 1].attrs = DictSet(@, key, sensorDevice.num_measurements),
                      ![pos + 1].scheduled = hassEntities[pos + 1].enabled]
           /\ rpLocals' = [rpLocals EXCEPT !.entity_pos = nxt]
           /\ rpPc' = IF nxt < Len(hassEntities) THEN "l212" ELSE "l238"
    /\ UNCHANGED <<sensorDevice, hist, ReporterFrame>>

\* Line 238: reset, one assignment (lines 78-84) per step; after the last the
\* tick is over and the next one is scheduled.
ResetStep ==
    /\ rpPc = "l238"
    /\ LET k == rpLocals.reset_k + 1
       IN  /\ sensorDevice' = reset_step(sensorDevice, k)
           /\ IF k < 7
              THEN /\ rpLocals' = [rpLocals EXCEPT !.reset_k = k]
                   /\ rpPc' = "l238"
              ELSE /\ rpLocals' = NoLocals
                   /\ rpPc' = "idle"
    /\ UNCHANGED <<hassEntities, hist, ReporterFrame>>

-----------------------------------------------------------------------------
(* The system: one configured device, the callback thread and the reporting
   thread *)

FlagsRecord(f) == GapRecord(GAP_FLAGS, <<f>>)

GoveeValidReport ==
    Report(DeviceMacLE,
           FlagsRecord(5) \o GapRecord(GAP_MFG_DATA, PayloadH5075(215450, 90)), 196)
GoveeSpikeReport ==
    Report(DeviceMacLE,
           FlagsRecord(5) \o GapRecord(GAP_MFG_DATA, PayloadH5075(801450, 120)), 10)
MoatValidReport ==
    Report(DeviceMacLE,
           GapRecord(GAP_MFG_DATA, PayloadMoatS2(24932, 26739, 2800)), 200)
MoatSpikeReport ==
    Report(DeviceMacLE, GapRecord(GAP_MFG_DATA, PayloadMoatS2(0, 0, 2700)), 190)
NameOnlyReport ==
    Report(DeviceMacLE, GapRecord(GAP_NAME_COMPLETE, <<97, 98>>), 186)
OtherAddressReport ==
    Report(OtherMacLE,
           FlagsRecord(5) \o GapRecord(GAP_MFG_DATA, PayloadH5075(215450, 90)), 196)

ReportsFor(b) ==
    IF b = GOVEE
    THEN {GoveeValidReport, GoveeSpikeReport, MoatValidReport, OtherAddressReport}
    ELSE {MoatValidReport, MoatSpikeReport, NameOnlyReport, OtherAddressReport}

SystemHist ==
    [packets |-> 0, updates |-> 0, accepted |-> 0, counted |-> 0,
     ticks |-> 0, scan_failed |-> FALSE]

\* setup_platform, lines 274-285: the devices are initialised, the scan runs
\* and the first tick is scheduled.
Init ==
    /\ brand \in DeviceBrand
    /\ config = DefaultConfig
    /\ sensorDevice = NewSensorDevice(DeviceMac, DeviceParams(config))
    /\ hassEntities = InitEntities(config)
    /\ hci_data = <<>>
    /\ parsed_advertisement = NewObject
    /\ cbPc = "idle"
    /\ cbTmp = 0
    /\ rpPc = "idle"
    /\ rpLocals = NoLocals
    /\ hist = SystemHist

Callback ==
    \/ \E data \in ReportsFor(brand) : Receive(data)
    \/ UpdateTemperature
    \/ UpdateHumidity
    \/ UpdateBattery
    \/ UpdateMillivolts
    \/ UpdateRaw
    \/ UpdateNumLoad
    \/ UpdateNumStore
    \/ AppendRssi

Reporter ==
    \/ TickScanFails
    \/ TickStart
    \/ ReadTempNum
    \/ ReadMeanTemperature
    \/ ReadMedianTemperature
    \/ ReadMeanHumidity
    \/ ReadMedianHumidity
    \/ AttrLastRawData
    \/ AttrRssi
    \/ AttrBatteryLevel
    \/ TestBatteryMillivolts
    \/ AttrBatteryMillivolts
    \/ AttrNumMeasurements
    \/ ResetStep

Next == Callback \/ Reporter

Spec == Init /\ [][Next]_vars

-----------------------------------------------------------------------------
(* SensorDevice alone: any sequence of update, append_rssi and reset calls,
   each running to its end before the next begins *)

MaxCalls == 2

Deg(tenths) == Some([n |-> tenths, d |-> 10])

IntPacket == Some([int |-> 215450])
StrPacket == Some([str |-> <<10, 11>>])

\* Arguments of update: temperature, humidity, battery percentage, battery
\* millivolts, packet.  Each field is absent, in range, on a bound of its
\* range, or just outside it in some tuple.
UpdateArgs ==
    { <<Deg(215), Deg(450), Some(90), Some(2800), IntPacket>>,
      <<Deg(-450), Deg(999), Some(100), None, StrPacket>>,
      <<Deg(700), Deg(0), Some(0), None, IntPacket>>,
      <<Deg(701), Deg(450), Some(90), None, IntPacket>>,
      <<Deg(-451), Deg(450), Some(90), None, StrPacket>>,
      <<None, Deg(450), Some(90), None, IntPacket>>,
      <<Deg(215), Deg(1000), Some(90), None, IntPacket>>,
      <<Deg(215), Deg(-1), Some(90), None, IntPacket>>,
      <<Deg(215), None, Some(90), None, IntPacket>>,
      <<Deg(215), Deg(450), Some(101), None, IntPacket>>,
      <<Deg(215), Deg(450), Some(-1), None, IntPacket>>,
      <<Deg(215), Deg(450), None, None, IntPacket>>,
      <<None, None, None, None, None>> }

RssiArgs == {None, Some(-60), Some(-1), Some(0), Some(5)}

DeviceFrame ==
    <<hci_data, brand, parsed_advertisement, cbPc, cbTmp, hassEntities, config,
      rpPc, rpLocals>>

DevCall(op, args, after) ==
    /\ sensorDevice' = after
    /\ hist' = [op |-> op, args |-> args, before |-> sensorDevice,
                calls |-> IF op = "update" THEN hist.calls + 1
                          ELSE IF op = "reset" THEN 0 ELSE hist.calls]
    /\ UNCHANGED DeviceFrame

DevUpdate(a) ==
    /\ sensorDevice.num_measurements < MaxCalls
    /\ DevCall("update", a, update(sensorDevice, a[1], a[2], a[3], a[4], a[5]))

DevAppendRssi(v) ==
    /\ Len(sensorDevice.rssi_measurements) < MaxCalls
    /\ DevCall("append_rssi", <<v>>, append_rssi(sensorDevice, v))

DevReset == DevCall("reset", <<>>, reset(sensorDevice))

ModelArgs == {None, Some("Govee H5072/H5075")}

DevSetModel(m) ==
    /\ m # sensorDevice.detected_model
    /\ DevCall("set_model", <<m>>, set_model(sensorDevice, m))

InitDevice ==
    /\ brand = GOVEE
    /\ config \in {DefaultConfig,
                   [DefaultConfig EXCEPT !.report_fahrenheit = TRUE]}
    /\ sensorDevice = NewSensorDevice(DeviceMac, DeviceParams(config))
    /\ hassEntities = InitEntities(config)
    /\ hci_data = <<>>
    /\ parsed_advertisement = NewObject
    /\ cbPc = "idle"
    /\ cbTmp = 0
    /\ rpPc = "idle"
    /\ rpLocals = NoLocals
    /\ hist = [op |-> "init", args |-> <<>>, before |-> sensorDevice, calls |-> 0]

NextDevice ==
    \/ \E a \in UpdateArgs : DevUpdate(a)
    \/ \E v \in RssiArgs : DevAppendRssi(v)
    \/ DevReset
    \/ \E m \in ModelArgs : DevSetModel(m)

SpecDevice == InitDevice /\ [][NextDevice]_vars

-----------------------------------------------------------------------------
(* Properties of SensorDevice, checked under SpecDevice *)

TempOk(dev, t) ==
    /\ ~IsNone(t)
    /\ dev.temp_range_min * Val(t).d <= Val(t).n
    /\ Val(t).n <= dev.temp_range_max * Val(t).d

HumOk(h) == ~IsNone(h) /\ 0 <= Val(h).n /\ 10 * Val(h).n <= 999 * Val(h).d

BattOk(b) == ~IsNone(b) /\ 0 <= Val(b) /\ Val(b) <= 100

\* C3: after any sequence of update, append_rssi and reset calls every
\* temperature in the list lies in [temp_range_min, temp_range_max] degrees
\* Celsius (with Fahrenheit reporting on or off), every humidity in
\* [0.0, 99.9], every battery percentage in [0, 100] and every RSSI is
\* negative; and an update whose temperature, humidity or battery value is
\* absent or out of range leaves the length of that value's list as it was.
C3_ListsInRange ==
    /\ \A i \in 1..Len(sensorDevice.temperature_measurements) :
           TempOk(sensorDevice, Some(sensorDevice.temperature_measurements[i]))
    /\ \A i \in 1..Len(sensorDevice.humidity_measurements) :
           HumOk(Some(sensorDevice.humidity_measurements[i]))
    /\ \A i \in 1..Len(sensorDevice.battery_percentage_measurements) :
           BattOk(Some(sensorDevice.battery_percentage_measurements[i]))
    /\ \A i \in 1..Len(sensorDevice.rssi_measurements) :
           sensorDevice.rssi_measurements[i] < 0
    /\ hist.op = "update" =>
           /\ ~TempOk(hist.before, hist.args[1]) =>
                  Len(sensorDevice.temperature_measurements)
                      = Len(hist.before.temperature_measurements)
           /\ ~HumOk(hist.args[2]) =>
                  Len(sensorDevice.humidity_measurements)
                      = Len(hist.before.humidity_measurements)
           /\ ~BattOk(hist.args[3]) =>
                  Len(sensorDevice.battery_percentage_measurements)
                      = Len(hist.before.battery_percentage_measurements)

\* An update with 70.1 degrees has just been refused by a device that reports
\* in Fahrenheit and already holds a sample.
C3_Witness ==
    /\ hist.op = "update"
    /\ hist.args[1] = Deg(701)
    /\ sensorDevice.report_fahrenheit
    /\ Len(sensorDevice.temperature_measurements) = 1
    /\ sensorDevice.num_measurements = 2

\* The text str(packet) gives for the packets of UpdateArgs
ExpectedRaw(packet) ==
    IF packet = IntPacket THEN [dec |-> <<2, 1, 5, 4, 5, 0>>]
    ELSE IF packet = StrPacket THEN [str |-> <<10, 11>>]
    ELSE [lit |-> "None"]

\* C4: every update call adds exactly one to num_measurements and stores the
\* text of its packet as last_raw_data, whatever it did with the temperature,
\* humidity and battery values; so with calls that do not overlap,
\* num_measurements is the number of update calls since the last reset.  One
\* accepted temperature followed by one refused gives a mean over the accepted
\* sample alone and a count of 2.
C4_AttemptsCounted ==
    /\ sensorDevice.num_measurements = hist.calls
    /\ hist.op = "update" =>
           /\ sensorDevice.num_measurements = hist.before.num_measurements + 1
           /\ sensorDevice.latest_raw_data_str = Some(ExpectedRaw(hist.args[5]))
    /\ ( /\ hist.op = "update"
         /\ hist.args[1] = Deg(701)
         /\ hist.before.temperature_measurements = <<[n |-> 215, d |-> 10]>>
         /\ hist.before.num_measurements = 1 ) =>
           /\ sensorDevice.num_measurements = 2
           /\ Val(mean_temperature(sensorDevice)).avg = [n |-> 215, d |-> 10]

\* The second of two updates carried an out-of-range temperature.
C4_Witness ==
    /\ hist.op = "update"
    /\ hist.args[1] = Deg(701)
    /\ hist.before.temperature_measurements = <<[n |-> 215, d |-> 10]>>
    /\ hist.before.num_measurements = 1
    /\ sensorDevice.num_measurements = 2

-----------------------------------------------------------------------------
(* parse_ble_advertisement alone, applied to bounded sets of raw buffers *)

MaxPayloadLen == 21

GoveeWindow == 2

FillByte(i) == (17 * i + 3) % 256

\* A payload of length len that starts with the two bytes of lead
GridPayload(len, lead) ==
    SubSeq(lead \o [i \in 1..MaxPayloadLen |-> FillByte(i)], 1, len)

LeadingBytes == {UUID_88EC, UUID_0100, UUID_0010, <<170, 187>>}

\* No Flags record, or one with the value 4, 5 or 6
FlagsChoices == {<<>>, <<4>>, <<5>>, <<6>>}

\* A report of an optional Flags record and one manufacturer-data or
\* service-data record, with what it was built from.
GridInputs ==
    { [data |-> Report(DeviceMacLE,
                       (IF Len(f) = 0 THEN <<>> ELSE FlagsRecord(f[1]))
                           \o GapRecord(ty, GridPayload(len, lead)),
                       196),
       info |-> [family |-> "grid", has_flags |-> Len(f) > 0,
                 payload |-> GridPayload(len, lead)]] :
      f \in FlagsChoices, ty \in {GAP_MFG_DATA, GAP_SERVICE_DATA},
      len \in 0..MaxPayloadLen, lead \in LeadingBytes }

Prefixes(r) == { SubSeq(r, 1, k) : k \in 0..Len(r) }

NamedGoveeReport ==
    Report(DeviceMacLE,
           FlagsRecord(5) \o GapRecord(GAP_NAME_COMPLETE, <<71, 86>>)
               \o GapRecord(GAP_MFG_DATA, PayloadH5075(215450, 90)), 196)

\* Reports cut short at every length, and reports with a malformed record, a
\* record of an unknown type, two payload records, or a record that runs past
\* the end.
OtherBuffers ==
    Prefixes(NamedGoveeReport) \cup Prefixes(MoatValidReport)
    \cup { Report(DeviceMacLE, recs, 196) : recs \in
           { FlagsRecord(5) \o GapRecord(GAP_MFG_DATA, PayloadH5075(215450, 90))
                 \o GapRecord(GAP_NAME_COMPLETE, <<200>>),
             GapRecord(GAP_NAME_COMPLETE, <<200>>)
                 \o GapRecord(GAP_MFG_DATA, PayloadMoatS2(24932, 26739, 2800)),
             GapRecord(GAP_MFG_DATA, PayloadMoatS2(24932, 26739, 2800))
                 \o GapRecord(GAP_NAME_COMPLETE, <<77, 200>>),
             GapRecord(GAP_FLAGS, <<>>)
                 \o GapRecord(GAP_MFG_DATA, PayloadH5075(215450, 90)),
             GapRecord(GAP_MFG_DATA, PayloadMoatS2(24932, 26739, 2800))
                 \o GapRecord(GAP_FLAGS, <<>>),
             <<0>> \o FlagsRecord(5)
                 \o GapRecord(GAP_MFG_DATA, PayloadH5075(215450, 90)),
             GapRecord(3, <<9, 24>>) \o FlagsRecord(5)
                 \o GapRecord(GAP_MFG_DATA, PayloadH5102(8388608 + 55450, 77)),
             GapRecord(GAP_MFG_DATA, PayloadMoatS2(24932, 26739, 2800))
                 \o FlagsRecord(5)
                 \o GapRecord(GAP_SERVICE_DATA, PayloadH5075(215450, 90)),
             GapRecord(GAP_MFG_DATA, PayloadH5075(215450, 90)) \o FlagsRecord(5),
             GapRecord(GAP_MFG_DATA, PayloadH5074(2150, 4500, 90)),
             GapRecord(GAP_MFG_DATA, PayloadH5074(65535 - 99, 4500, 90) \o <<1, 2>>),
             FlagsRecord(6)
                 \o GapRecord(GAP_MFG_DATA, PayloadMoatS2(4660, 9029, 2736)),
             FlagsRecord(5) \o <<30, GAP_MFG_DATA>> \o <<136, 236, 0, 3, 73, 154, 90>>,
             FlagsRecord(5) \o GapRecord(GAP_MFG_DATA, PayloadH5075(215450, 90))
                 \o <<5, GAP_NAME_COMPLETE, 71>>,
             <<>> } }
    \cup { Report(DeviceMacLE,
                  FlagsRecord(5)
                      \o GapRecord(GAP_MFG_DATA, PayloadH5075(215450, 90))
                      \o <<2>>, 1) }

\* The 24-bit value Govee packs a temperature t (tenths of a degree) and a
\* humidity h (tenths of a percent) into
GoveeEncode(t, h) ==
    (IF t < 0 THEN 8388608 ELSE 0) + (IF t < 0 THEN -t ELSE t) * 1000 + h

GoveeTenths == {-450, -205, 215, 700} \cup (-GoveeWindow..GoveeWindow)
GoveeHumidities == {0, 391, 392, 450, 999}

GoveePackedValues ==
    { a + k : a \in {0, 998, 154900, 8388608 - 3, 8388608 + 998, 9000000,
                     16777215 - GoveeWindow},
              k \in 0..GoveeWindow }

GoveeReport(layout, v) ==
    Report(DeviceMacLE,
           FlagsRecord(5)
               \o GapRecord(GAP_MFG_DATA,
                            IF layout = 1 THEN PayloadH5075(v, 90)
                            ELSE PayloadH5102(v, 90)),
           196)

GoveeInputs ==
    { [data |-> GoveeReport(layout, v),
       info |-> [family |-> "packed", packed |-> v]] :
      layout \in {1, 2}, v \in GoveePackedValues }
    \cup
    { [data |-> GoveeReport(layout, GoveeEncode(th[1], th[2])),
       info |-> [family |-> "encoded", t |-> th[1], h |-> th[2],
                 packed |-> GoveeEncode(th[1], th[2])]] :
      layout \in {1, 2}, th \in GoveeTenths \X GoveeHumidities }

\* Moat S2 reports over the battery voltages around the two clamps, the
\* voltage 2736 and the ends of the 16-bit range.
MoatVolts == {0, 2736, 65535} \cup 2755..2825

MoatInputs ==
    { [data |-> Report(DeviceMacLE,
                       GapRecord(GAP_MFG_DATA, PayloadMoatS2(4660, 9029, mv)),
                       200),
       info |-> [family |-> "moat", mv |-> mv]] : mv \in MoatVolts }

ParseInputs ==
    GridInputs \cup GoveeInputs \cup MoatInputs
    \cup { [data |-> b, info |-> [family |-> "other"]] : b \in OtherBuffers }

InitParse ==
    /\ \E inp \in ParseInputs : hci_data = inp.data /\ hist = inp.info
    /\ brand \in DeviceBrand
    /\ config = DefaultConfig
    /\ sensorDevice = NewSensorDevice(DeviceMac, DeviceParams(config))
    /\ hassEntities = InitEntities(config)
    /\ parsed_advertisement = NewObject
    /\ cbPc = "input"
    /\ cbTmp = 0
    /\ rpPc = "idle"
    /\ rpLocals = NoLocals

Parse ==
    /\ cbPc = "input"
    /\ parsed_advertisement' = parse_ble_advertisement(hci_data, brand)
    /\ cbPc' = "parsed"
    /\ UNCHANGED <<hci_data, brand, cbTmp, sensorDevice, hassEntities, config,
                   rpPc, rpLocals, hist>>

NextParse == Parse

SpecParse == InitParse /\ [][NextParse]_vars

-----------------------------------------------------------------------------
(* Properties of the callback running against a reporting tick, checked under
   Spec *)

\* C1: in any interleaving of the callback with a reporting tick no sample
\* the callback appended is dropped: once both threads are at rest, every
\* temperature sample update() accepted was in the list when the tick read its
\* median (and so is part of the published values) or is still in the list.
C1_NoSampleDropped ==
    (rpPc = "idle" /\ cbPc = "idle") =>
        hist.accepted = hist.counted + Len(sensorDevice.temperature_measurements)

\* C2: read-then-reset is atomic with respect to incoming samples: when the
\* tick reaches reset(), the count it read first and the means and medians it
\* published are those of the aggregator state that reset() is about to clear.
C2_ReadThenResetAtomic ==
    (rpPc = "l238" /\ rpLocals.reset_k = 0) =>
        /\ rpLocals.temp_num = sensorDevice.num_measurements
        /\ rpLocals.temperature_mean = mean_temperature(sensorDevice)
        /\ rpLocals.temperature_median = median_temperature(sensorDevice)
        /\ rpLocals.humidity_mean = mean_humidity(sensorDevice)
        /\ rpLocals.humidity_median = median_humidity(sensorDevice)

-----------------------------------------------------------------------------
(* Properties of the parser, checked under SpecParse *)

Parsed == cbPc = "parsed"

\* The GAP walk ended without an exception and a vendor layout matched what
\* it extracted.
LayoutMatched(o, brnd) ==
    /\ o.exc = ""
    /\ \/ brnd = MOAT /\ check_is_moat_s2(o)
       \/ brnd = GOVEE /\ ( \/ check_is_gvh5075_gvh5072(o)
                           \/ check_is_gvh5102(o)
                           \/ check_is_gvh5074(o)
                           \/ check_is_gvh5051(o) )

NoMeasurement(o) ==
    /\ IsNone(o.temperature)
    /\ IsNone(o.humidity)
    /\ IsNone(o.battery)
    /\ IsNone(o.battery_millivolts)
    /\ IsNone(o.packet)

SignedByte(b) == IF b > 127 THEN b - 256 ELSE b

\* C5 as stated: for every raw buffer and either brand hint the parse returns
\* without raising, and when no vendor layout matches, temperature, humidity,
\* battery, battery millivolts and packet are unset while the address and the
\* RSSI are populated.
C5_Original ==
    Parsed =>
        /\ ~parsed_advertisement.raised
        /\ ~LayoutMatched(parsed_advertisement, brand) =>
               /\ NoMeasurement(parsed_advertisement)
               /\ ~IsNone(parsed_advertisement.mac)
               /\ "rssi" \in parsed_advertisement.attrs

\* C5 as amended: for every raw buffer and either brand hint the parse returns
\* without raising, and when no vendor layout matches, temperature, humidity,
\* battery, battery millivolts and packet are unset; the address is the six
\* bytes 3..8 in reverse order when the buffer has at least 9 bytes and None
\* when it is shorter; the RSSI is taken from the last byte when the buffer is
\* not empty, and is not assigned at all for the empty buffer.
C5_ParseNeverRaises ==
    Parsed =>
        /\ ~parsed_advertisement.raised
        /\ ~LayoutMatched(parsed_advertisement, brand) =>
               NoMeasurement(parsed_advertisement)
        /\ IF Len(hci_data) >= 9
           THEN parsed_advertisement.mac =
                    Some(<<hci_data[9], hci_data[8], hci_data[7],
                           hci_data[6], hci_data[5], hci_data[4]>>)
           ELSE IsNone(parsed_advertisement.mac)
        /\ IF Len(hci_data) >= 1
           THEN /\ "rssi" \in parsed_advertisement.attrs
                /\ ~IsNone(parsed_advertisement.rssi) =>
                       Val(parsed_advertisement.rssi)
                           = SignedByte(hci_data[Len(hci_data)])
           ELSE "rssi" \notin parsed_advertisement.attrs

\* A buffer 3 bytes short of the 10-byte header has been parsed: no address,
\* an RSSI, no measurement.
C5_Witness ==
    /\ Parsed
    /\ Len(hci_data) = 7
    /\ IsNone(parsed_advertisement.mac)
    /\ "rssi" \in parsed_advertisement.attrs
    /\ NoMeasurement(parsed_advertisement)
    /\ parsed_advertisement.exc = ""

\* C6: for every raw buffer and brand hint, temperature, humidity, battery
\* percentage and packet are all set or all unset after the parse, a parse
\* that a decode error ended included.
C6_AllOrNothing ==
    Parsed =>
        \/ /\ ~IsNone(parsed_advertisement.temperature)
           /\ ~IsNone(parsed_advertisement.humidity)
           /\ ~IsNone(parsed_advertisement.battery)
           /\ ~IsNone(parsed_advertisement.packet)
        \/ /\ IsNone(parsed_advertisement.temperature)
           /\ IsNone(parsed_advertisement.humidity)
           /\ IsNone(parsed_advertisement.battery)
           /\ IsNone(parsed_advertisement.packet)

\* A name that is not ASCII ended the parse after a payload of the H5075
\* shape had been extracted.
C6_Witness ==
    /\ Parsed
    /\ brand = GOVEE
    /\ parsed_advertisement.exc = "ValueError"
    /\ "mfg_data" \in parsed_advertisement.attrs
    /\ Len(parsed_advertisement.mfg_data) = 8
    /\ parsed_advertisement.flags = 5
    /\ IsNone(parsed_advertisement.packet)

HasPayload(o, len, flags) ==
    "mfg_data" \in o.attrs /\ Len(o.mfg_data) = len /\ o.flags = flags

LeadIs(o, lead) == SubSeq(o.mfg_data, 1, 2) = lead

\* What the walk extracts from a report of GridInputs: the payload it was
\* built from, and the Flags value, 6 when there is no Flags record.
GridExtracted(o) ==
    hist.family = "grid" =>
        /\ o.exc = ""
        /\ "mfg_data" \in o.attrs
        /\ o.mfg_data = hist.payload
        /\ hist.has_flags \/ o.flags = 6

\* C7 as stated: with brand hint Govee a payload is decoded as H5075/H5072
\* exactly when its length is 5, Flags is 5 and it starts with 88ec, as
\* H5102/H5101 exactly when its length is 5, Flags is 5 and it starts with
\* 0100, as H5074/H5051 exactly when its length is 6 and Flags is 6, and any
\* other combination yields no measurement.
C7_Original ==
    (Parsed /\ brand = GOVEE /\ parsed_advertisement.exc = "") =>
        /\ parsed_advertisement.model = Some("Govee H5072/H5075")
               <=> ( /\ HasPayload(parsed_advertisement, 5, 5)
                     /\ LeadIs(parsed_advertisement, UUID_88EC) )
        /\ parsed_advertisement.model = Some("Govee H5101/H5102")
               <=> ( /\ HasPayload(parsed_advertisement, 5, 5)
                     /\ LeadIs(parsed_advertisement, UUID_0100) )
        /\ parsed_advertisement.model = Some("Govee H5074/H5051")
               <=> HasPayload(parsed_advertisement, 6, 6)
        /\ IsNone(parsed_advertisement.model)
               <=> NoMeasurement(parsed_advertisement)

\* C7 as amended: with brand hint Govee, when the GAP scan ended without a
\* decode error, a payload is decoded as H5075/H5072 exactly when its length
\* is 8, Flags is 5 and it starts with 88ec, as H5102/H5101 exactly when its
\* length is 8, Flags is 5 and it starts with 0100, as H5074/H5051 exactly
\* when its length is 9 or 11 and Flags is 6 (the default when there is no
\* Flags record), and any other combination yields no measurement.
C7_GoveeSignatures ==
    (Parsed /\ brand = GOVEE /\ parsed_advertisement.exc = "") =>
        /\ GridExtracted(parsed_advertisement)
        /\ parsed_advertisement.model = Some("Govee H5072/H5075")
               <=> ( /\ HasPayload(parsed_advertisement, 8, 5)
                     /\ LeadIs(parsed_advertisement, UUID_88EC) )
        /\ parsed_advertisement.model = Some("Govee H5101/H5102")
               <=> ( /\ HasPayload(parsed_advertisement, 8, 5)
                     /\ LeadIs(parsed_advertisement, UUID_0100) )
        /\ parsed_advertisement.model = Some("Govee H5074/H5051")
               <=> ( \/ HasPayload(parsed_advertisement, 9, 6)
                     \/ HasPayload(parsed_advertisement, 11, 6) )
        /\ IsNone(parsed_advertisement.model)
               <=> NoMeasurement(parsed_advertisement)
        /\ IsNone(parsed_advertisement.model)
               <=> IsNone(parsed_advertisement.temperature)

\* A report without a Flags record and with a 9-byte payload has been decoded
\* as H5074/H5051.
C7_Witness ==
    /\ Parsed
    /\ brand = GOVEE
    /\ hist.family = "grid"
    /\ ~hist.has_flags
    /\ Len(hist.payload) = 9
    /\ parsed_advertisement.model = Some("Govee H5074/H5051")
    /\ ~IsNone(parsed_advertisement.temperature)

\* C8: with brand hint Moat, when the GAP scan ended without a decode error,
\* a payload is decoded exactly when its length is 20, Flags is 6 (also when
\* no Flags record is present) and it starts with 0010; with brand hint Govee
\* such a payload is never decoded, and with brand hint Moat a payload of a
\* Govee signature is never decoded.
C8_MoatSignature ==
    (Parsed /\ parsed_advertisement.exc = "") =>
        /\ GridExtracted(parsed_advertisement)
        /\ brand = MOAT =>
               /\ ~NoMeasurement(parsed_advertisement)
                      <=> ( /\ HasPayload(parsed_advertisement, 20, 6)
                            /\ LeadIs(parsed_advertisement, UUID_0010) )
               /\ IsNone(parsed_advertisement.packet)
                      <=> NoMeasurement(parsed_advertisement)
               /\ IsNone(parsed_advertisement.model)
        /\ ( /\ brand = GOVEE
             /\ HasPayload(parsed_advertisement, 20, 6)
             /\ LeadIs(parsed_advertisement, UUID_0010) ) =>
               NoMeasurement(parsed_advertisement)

\* A report without a Flags record and with a 20-byte payload that starts
\* with 0010 has been decoded for a Moat device.
C8_Witness ==
    /\ Parsed
    /\ brand = MOAT
    /\ hist.family = "grid"
    /\ ~hist.has_flags
    /\ Len(hist.payload) = 20
    /\ ~IsNone(parsed_advertisement.temperature)
    /\ ~IsNone(parsed_advertisement.battery_millivolts)

\* C9 as stated: for every temperature t in tenths of a degree and humidity h
\* in tenths of a percent, decoding encode(t, h) gives the temperature t/10
\* and the humidity h/10, and a negative t gives a temperature below 0.
C9_RoundTrip ==
    (Parsed /\ brand = GOVEE /\ hist.family = "encoded") =>
        /\ parsed_advertisement.temperature = Some([n |-> hist.t, d |-> 10])
        /\ parsed_advertisement.humidity = Some([n |-> hist.h, d |-> 10])
        /\ hist.t < 0 => Val(parsed_advertisement.temperature).n < 0

\* C10: for every 24-bit packed value v the temperature in tenths of a degree
\* is v div 1000 when v has bit 0x800000 clear (v < 8388608) and
\* -((v - 8388608) div 1000) when it is set, and the humidity in tenths of a
\* percent is v mod 1000; v = 154900 gives 15.4 degrees and 90.0 percent.
C10_GoveeDecode ==
    (Parsed /\ brand = GOVEE /\ hist.family \in {"packed", "encoded"}) =>
        /\ parsed_advertisement.packet = Some([int |-> hist.packed])
        /\ parsed_advertisement.temperature =
               Some([n |-> IF hist.packed < 8388608
                           THEN hist.packed \div 1000
                           ELSE -((hist.packed - 8388608) \div 1000),
                     d |-> 10])
        /\ parsed_advertisement.humidity =
               Some([n |-> hist.packed % 1000, d |-> 10])
        /\ hist.packed = 154900 =>
               /\ parsed_advertisement.temperature = Some([n |-> 154, d |-> 10])
               /\ parsed_advertisement.humidity = Some([n |-> 900, d |-> 10])

\* The value 0x025D14 has been decoded.
C10_Witness ==
    /\ Parsed
    /\ brand = GOVEE
    /\ hist.family = "packed"
    /\ hist.packed = 154900
    /\ parsed_advertisement.temperature = Some([n |-> 154, d |-> 10])

\* The percentage the claim gives for a voltage, as a fraction
ClaimedPercentage(mv) ==
    IF mv <= 2760 THEN [n |-> 1, d |-> 1]
    ELSE IF mv >= 2820 THEN [n |-> 100, d |-> 1]
    ELSE [n |-> 60 + 99 * (mv - 2760), d |-> 60]

\* C11: for every Moat S2 battery voltage mV the battery percentage is 1 when
\* mV <= 2760, 100 when mV >= 2820 and 1 + 99*(mV - 2760)/60 in between (the
\* parsed battery field is the integer part of it); it lies in [1, 100], is
\* not below the percentage of mV - 1, and is 1 for mV = 2736.
C11_BatteryRescale ==
    (Parsed /\ brand = MOAT /\ hist.family = "moat") =>
        LET mv == hist.mv
            pct == moat_s2_battery_voltage_to_percentage(mv)
            batt == Val(parsed_advertisement.battery)
        IN  /\ parsed_advertisement.battery_millivolts = Some(mv)
            /\ pct.n * ClaimedPercentage(mv).d = ClaimedPercentage(mv).n * pct.d
            /\ batt = ClaimedPercentage(mv).n \div ClaimedPercentage(mv).d
            /\ batt >= 1 /\ batt <= 100
            /\ pct.n >= pct.d /\ pct.n <= 100 * pct.d
            /\ mv > 0 =>
                   LET prev == moat_s2_battery_voltage_to_percentage(mv - 1)
                   IN  /\ prev.n * pct.d <= pct.n * prev.d
                       /\ PyInt(prev) <= batt
            /\ mv = 2736 => batt = 1

\* The voltage 2736 has been decoded to 1 percent.
C11_Witness ==
    /\ Parsed
    /\ brand = MOAT
    /\ hist.family = "moat"
    /\ hist.mv = 2736
    /\ parsed_advertisement.battery = Some(1)
    /\ parsed_advertisement.battery_millivolts = Some(2736)

-----------------------------------------------------------------------------
(* The reporting loop without a limit on the number of ticks; the timer and
   the worker thread are fair. *)

MaxLoopPackets == 1

\* parity changes with every tick; retried tells that a tick has run after a
\* tick whose start_scanning failed.
LoopHist ==
    [packets |-> 0, updates |-> 0, accepted |-> 0, counted |-> 0,
     parity |-> 0, scan_failed |-> FALSE, retried |-> FALSE]

\* setup_platform as in Init
InitLoop ==
    /\ brand \in DeviceBrand
    /\ config = DefaultConfig
    /\ sensorDevice = NewSensorDevice(DeviceMac, DeviceParams(config))
    /\ hassEntities = InitEntities(config)
    /\ hci_data = <<>>
    /\ parsed_advertisement = NewObject
    /\ cbPc = "idle"
    /\ cbTmp = 0
    /\ rpPc = "idle"
    /\ rpLocals = NoLocals
    /\ hist = LoopHist

LoopTicked(failed) ==
    [hist EXCEPT !.parity = 1 - @, !.scan_failed = failed,
                 !.retried = @ \/ hist.scan_failed]

\* A faulty variant of LoopTickScanFails: the RuntimeError is not caught, so
\* line 265 is not reached.
LoopTickScanFails_uncaught ==
    /\ rpPc = "idle"
    /\ rpPc' = "RuntimeError"
    /\ hist' = LoopTicked(TRUE)
    /\ UNCHANGED <<sensorDevice, hassEntities, rpLocals, ReporterFrame>>

\* update_ble_loop, lines 255-265, when start_scanning raises RuntimeError:
\* the error is logged and schedule_update_ble_loop is called.
LoopTickScanFails ==
    /\ rpPc = "idle"
    /\ hist' = LoopTicked(TRUE)
    /\ UNCHANGED <<sensorDevice, hassEntities, rpPc, rpLocals, ReporterFrame>>

\* update_ble_loop, lines 255-261, when start_scanning returns
LoopTickStart ==
    /\ rpPc = "idle"
    /\ rpPc' = "l167"
    /\ hassEntities' = [i \in 1..Len(hassEntities) |->
                           [hassEntities[i] EXCEPT !.scheduled = FALSE]]
    /\ hist' = LoopTicked(FALSE)
    /\ UNCHANGED <<sensorDevice, rpLocals, ReporterFrame>>

LoopTick == LoopTickScanFails \/ LoopTickStart

CallbackLoop ==
    \/ \E data \in ReportsFor(brand) : ReceiveUpTo(data, MaxLoopPackets)
    \/ UpdateTemperature
    \/ UpdateHumidity
    \/ UpdateBattery
    \/ UpdateMillivolts
    \/ UpdateRaw
    \/ UpdateNumLoad
    \/ UpdateNumStore
    \/ AppendRssi

ReporterLoop ==
    \/ LoopTick
    \/ ReadTempNum
    \/ ReadMeanTemperature
    \/ ReadMedianTemperature
    \/ ReadMeanHumidity
    \/ ReadMedianHumidity
    \/ AttrLastRawData
    \/ AttrRssi
    \/ AttrBatteryLevel
    \/ TestBatteryMillivolts
    \/ AttrBatteryMillivolts
    \/ AttrNumMeasurements
    \/ ResetStep

NextLoop == CallbackLoop \/ ReporterLoop

\* track_point_in_utc_time calls update_ble_loop once the period has elapsed
\* and the worker thread runs it to its end.
SpecLoop == InitLoop /\ [][NextLoop]_vars /\ WF_vars(ReporterLoop)

-----------------------------------------------------------------------------
(* One reporting tick over the configurations that enable the optional
   entities and that switch "update when unavailable" off *)

PublishConfigs ==
    { [DefaultConfig EXCEPT !.update_when_unavailable = u,
                            !.rssi_entities = more,
                            !.battery_entities = more,
                            !.num_samples_entities = more] :
      u \in BOOLEAN, more \in BOOLEAN }

\* setup_platform as in Init; Home Assistant's registry may have disabled an
\* entity (entity.enabled, line 227).
InitPublish ==
    /\ brand \in DeviceBrand
    /\ config \in PublishConfigs
    /\ sensorDevice = NewSensorDevice(DeviceMac, DeviceParams(config))
    /\ \E disabled \in BOOLEAN :
          hassEntities = IF disabled
                         THEN [InitEntities(config) EXCEPT ![1].enabled = FALSE]
                         ELSE InitEntities(config)
    /\ hci_data = <<>>
    /\ parsed_advertisement = NewObject
    /\ cbPc = "idle"
    /\ cbTmp = 0
    /\ rpPc = "idle"
    /\ rpLocals = NoLocals
    /\ hist = SystemHist

ReporterPublish ==
    \/ Reporter
    \/ ReadRssi
    \/ ReadBattery
    \/ ReadNumSamples

NextPublish == CallbackLoop \/ ReporterPublish

SpecPublish == InitPublish /\ [][NextPublish]_vars

-----------------------------------------------------------------------------
(* handle_meta_event alone, over reports of the device's address and of
   another one, with and without a measurement, and events that are not
   advertising reports *)

\* The GAP records of a report: a Govee H5075 measurement, a Moat S2
\* measurement, a name only, a name that is not ASCII, none at all, and a
\* record whose length runs past the end of the report.
AdvertRecords ==
    { FlagsRecord(5) \o GapRecord(GAP_MFG_DATA, PayloadH5075(215450, 90)),
      GapRecord(GAP_MFG_DATA, PayloadMoatS2(24932, 26739, 2800)),
      GapRecord(GAP_NAME_COMPLETE, <<97, 98>>),
      GapRecord(GAP_NAME_COMPLETE, <<200>>),
      <<>>,
      <<30, GAP_MFG_DATA, 1, 2>> }

\* The RSSI bytes -60, -1, 0, 10 and 127 (not available)
AdvertRssiBytes == {196, 255, 0, 10, 127}

AdvertReports ==
    { Report(mac, recs, r) :
        mac \in {DeviceMacLE, OtherMacLE}, recs \in AdvertRecords,
        r \in AdvertRssiBytes }
    \cup { SubSeq(Report(DeviceMacLE, <<>>, 196), 1, 7) }

AdvertHist ==
    [packets |-> 0, updates |-> 0, accepted |-> 0, counted |-> 0,
     event |-> [kind |-> "none", data |-> <<>>]]

InitAdvert ==
    /\ brand \in DeviceBrand
    /\ config = DefaultConfig
    /\ sensorDevice = NewSensorDevice(DeviceMac, DeviceParams(config))
    /\ hassEntities = InitEntities(config)
    /\ hci_data = <<>>
    /\ parsed_advertisement = NewObject
    /\ cbPc = "idle"
    /\ cbTmp = 0
    /\ rpPc = "idle"
    /\ rpLocals = NoLocals
    /\ hist = AdvertHist

\* Line 92 onwards, for an advertising report
AdvertReceive(data) ==
    /\ ReceiveBody(data, MaxPackets)
    /\ hist' = [hist EXCEPT !.packets = @ + 1,
                            !.event = [kind |-> "advertising_report",
                                       data |-> data]]

\* Line 92 for an event with another subevent code: nothing is done.
AdvertOtherEvent(data) ==
    /\ cbPc = "idle"
    /\ hist.packets < MaxPackets
    /\ hist' = [hist EXCEPT !.packets = @ + 1,
                            !.event = [kind |-> "other_event", data |-> data]]
    /\ UNCHANGED <<hci_data, brand, parsed_advertisement, cbPc, cbTmp,
                   sensorDevice, hassEntities, config, rpPc, rpLocals>>

NextAdvert ==
    \/ \E data \in AdvertReports : AdvertReceive(data)
    \/ \E data \in {GoveeValidReport, MoatValidReport} : AdvertOtherEvent(data)
    \/ UpdateTemperature
    \/ UpdateHumidity
    \/ UpdateBattery
    \/ UpdateMillivolts
    \/ UpdateRaw
    \/ UpdateNumLoad
    \/ UpdateNumStore
    \/ AppendRssi

SpecAdvert == InitAdvert /\ [][NextAdvert]_vars

-----------------------------------------------------------------------------
(* Properties of the reporting loop *)

\* C12: when the start_scanning call of a reporting tick fails, the same tick
\* still reads, publishes and resets the aggregator: a step that is a tick
\* whose scan failed goes on to line 167 of report_device_data.
C12_FailedScanStillReports ==
    [][(hist'.ticks = hist.ticks + 1 /\ hist'.scan_failed) => rpPc' = "l167"]_vars

\* C13: the reporting loop never stops because of a radio failure: ticks keep
\* occurring, and a tick on which start_scanning failed leaves the next tick
\* scheduled (the reporter back at rest, about to attempt the scan again).
C13_LoopNeverStops ==
    /\ []<><<LoopTick>>_vars
    /\ [][(hist'.parity # hist.parity /\ hist'.scan_failed) => rpPc' = "idle"]_vars
    /\ [](rpPc # "RuntimeError")

\* A tick has started its report after a tick whose start_scanning failed.
C13_Witness ==
    /\ hist.retried
    /\ ~hist.scan_failed
    /\ rpPc = "l167"

-----------------------------------------------------------------------------
(* Properties of SensorDevice.reset and of the reductions, checked under
   SpecDevice *)

\* C14: from any aggregator state reset() empties the five sample lists, sets
\* the attempt counter to zero and clears last_raw_data, and leaves every
\* other field (the configuration, the address, the detected model) as it was.
C14_ResetFrame ==
    hist.op = "reset" =>
        /\ sensorDevice.temperature_measurements = <<>>
        /\ sensorDevice.humidity_measurements = <<>>
        /\ sensorDevice.battery_percentage_measurements = <<>>
        /\ sensorDevice.battery_millivolt_measurements = <<>>
        /\ sensorDevice.rssi_measurements = <<>>
        /\ sensorDevice.num_measurements = 0
        /\ IsNone(sensorDevice.latest_raw_data_str)
        /\ \A f \in DOMAIN sensorDevice \
                     {"temperature_measurements", "humidity_measurements",
                      "battery_percentage_measurements",
                      "battery_millivolt_measurements", "rssi_measurements",
                      "num_measurements", "latest_raw_data_str"} :
               sensorDevice[f] = hist.before[f]

\* reset() has cleared an aggregator that held a sample in each list, a count
\* and a raw packet, and whose model was set.
C14_Witness ==
    /\ hist.op = "reset"
    /\ hist.before.temperature_measurements # <<>>
    /\ hist.before.humidity_measurements # <<>>
    /\ hist.before.battery_percentage_measurements # <<>>
    /\ hist.before.battery_millivolt_measurements # <<>>
    /\ hist.before.rssi_measurements # <<>>
    /\ hist.before.num_measurements > 0
    /\ ~IsNone(hist.before.latest_raw_data_str)
    /\ ~IsNone(hist.before.detected_model)
    /\ sensorDevice.detected_model = hist.before.detected_model
    /\ sensorDevice.num_measurements = 0

\* C15: whenever the sample list behind a reduction is empty, directly after
\* reset() or after updates whose samples were all refused, mean_temperature,
\* median_temperature, mean_humidity, median_humidity, battery_percentage,
\* battery_millivolts and rssi are None (never zero); with samples in the list
\* each of them is a value.
C15_EmptyIsAbsent ==
    /\ IsNone(mean_temperature(sensorDevice))
           <=> sensorDevice.temperature_measurements = <<>>
    /\ IsNone(median_temperature(sensorDevice))
           <=> sensorDevice.temperature_measurements = <<>>
    /\ IsNone(mean_humidity(sensorDevice))
           <=> sensorDevice.humidity_measurements = <<>>
    /\ IsNone(median_humidity(sensorDevice))
           <=> sensorDevice.humidity_measurements = <<>>
    /\ IsNone(battery_percentage(sensorDevice))
           <=> sensorDevice.battery_percentage_measurements = <<>>
    /\ IsNone(battery_millivolts(sensorDevice))
           <=> sensorDevice.battery_millivolt_measurements = <<>>
    /\ IsNone(rssi(sensorDevice))
           <=> sensorDevice.rssi_measurements = <<>>
    /\ hist.op = "reset" =>
           /\ IsNone(mean_temperature(sensorDevice))
           /\ IsNone(median_temperature(sensorDevice))
           /\ IsNone(mean_humidity(sensorDevice))
           /\ IsNone(median_humidity(sensorDevice))
           /\ IsNone(battery_percentage(sensorDevice))
           /\ IsNone(battery_millivolts(sensorDevice))
           /\ IsNone(rssi(sensorDevice))

\* An update whose temperature was refused has left the temperature list
\* empty, with a count of 1 and a humidity sample: the temperature reductions
\* and the RSSI are None and the humidity mean is a value.
C15_Witness ==
    /\ hist.op = "update"
    /\ sensorDevice.num_measurements = 1
    /\ ~IsNone(hist.args[1])
    /\ sensorDevice.temperature_measurements = <<>>
    /\ IsNone(mean_temperature(sensorDevice))
    /\ IsNone(median_temperature(sensorDevice))
    /\ ~IsNone(mean_humidity(sensorDevice))
    /\ IsNone(rssi(sensorDevice))

-----------------------------------------------------------------------------
(* Properties of the callback, checked under Spec and SpecAdvert *)

\* C16: once an advertisement whose decode detected a model has been folded
\* into the aggregator (update() has returned, line 113 is next), the
\* aggregator's detected model is that model.
C16_ModelRecorded ==
    ( /\ cbPc = "l113"
      /\ ~IsNone(parsed_advertisement.packet)
      /\ ~IsNone(parsed_advertisement.model) ) =>
        sensorDevice.detected_model = parsed_advertisement.model

-----------------------------------------------------------------------------
(* Properties of the publication of a tick, checked under SpecPublish *)

\* The entity at position i (from 1) was handed to Home Assistant on this tick
Published(i) == hassEntities[i].scheduled

\* C17: when the tick has handled its entities (line 238 is next), with
\* "update when unavailable" disabled an entity whose new state is None has no
\* state update scheduled and every enabled entity with a state has one, the
\* sample-count entity among them since its state is never None; with the
\* option enabled every enabled entity has one.  The aggregator is changed by
\* the reporting thread only at line 238, after the entities were handled.
C17_PublishPolicy ==
    /\ [](rpPc = "l238" =>
            \A i \in 1..Len(hassEntities) :
                /\ Published(i) <=>
                       /\ hassEntities[i].enabled
                       /\ \/ config.update_when_unavailable
                          \/ ~IsNone(hassEntities[i].state)
                /\ hassEntities[i].kind = "num_samples" =>
                       /\ ~IsNone(hassEntities[i].state)
                       /\ Published(i) <=> hassEntities[i].enabled)
    /\ [][(rpPc # "l238" /\ cbPc' = cbPc) => sensorDevice' = sensorDevice]_vars

\* A tick without samples and with "update when unavailable" disabled is at
\* line 238: the temperature entity was skipped and the sample-count entity
\* was published.
C17_Witness ==
    /\ rpPc = "l238"
    /\ ~config.update_when_unavailable
    /\ Len(hassEntities) = 5
    /\ hassEntities[1].enabled
    /\ IsNone(hassEntities[1].state)
    /\ ~Published(1)
    /\ hassEntities[5].kind = "num_samples"
    /\ Published(5)

-----------------------------------------------------------------------------
(* Properties of handle_meta_event, checked under SpecAdvert *)

\* The address in bytes 3..8 of an event's data is the device's address
ForDevice(data) ==
    /\ Len(data) >= 9
    /\ <<data[9], data[8], data[7], data[6], data[5], data[4]>> = sensorDevice.mac

\* C18: for the configured device an advertisement that matches no vendor
\* layout goes from its parse straight to line 113 with the aggregator
\* untouched, and line 113 changes nothing but the RSSI list, to which the
\* RSSI of the last byte is appended when it is present and strictly negative;
\* the attempt counter, last_raw_data and the four measurement lists keep
\* their values.
C18_NoMatchOnlyRssi ==
    [][ /\ ( /\ cbPc = "idle"
             /\ cbPc' # "idle"
             /\ ~LayoutMatched(parsed_advertisement', brand) ) =>
               /\ cbPc' = "l113"
               /\ sensorDevice' = sensorDevice
        /\ ( /\ cbPc = "l113"
             /\ ~LayoutMatched(parsed_advertisement, brand) ) =>
               LET b == SignedByte(hci_data[Len(hci_data)])
               IN  /\ cbPc' = "idle"
                   /\ sensorDevice' =
                          IF b < 0
                          THEN [sensorDevice EXCEPT
                                   !.rssi_measurements = Append(@, b)]
                          ELSE sensorDevice
      ]_vars

\* An advertisement with a name only has been handled: no attempt is counted,
\* no measurement or raw data is stored and its RSSI of -60 is in the list.
C18_Witness ==
    /\ cbPc = "idle"
    /\ hist.event.kind = "advertising_report"
    /\ hist.event.data = Report(DeviceMacLE, GapRecord(GAP_NAME_COMPLETE, <<97, 98>>), 196)
    /\ hist.packets = 1
    /\ sensorDevice.rssi_measurements = <<-60>>
    /\ sensorDevice.num_measurements = 0
    /\ sensorDevice.temperature_measurements = <<>>
    /\ IsNone(sensorDevice.latest_raw_data_str)

\* C19: an event changes the device's aggregator only when it is an
\* advertising report whose address is the device's address: a report of
\* another address and an event that is not an advertising report leave the
\* callback at rest with the aggregator as it was, and every change of the
\* aggregator happens while a report of the device's address is handled.
C19_OnlyMatchingAddress ==
    [][ /\ hist'.packets # hist.packets =>
               IF /\ hist'.event.kind = "advertising_report"
                  /\ ForDevice(hist'.event.data)
               THEN /\ cbPc' \in {"u263", "l113"}
                    /\ hci_data' = hist'.event.data
                    /\ sensorDevice' = sensorDevice
               ELSE /\ cbPc' = "idle"
                    /\ sensorDevice' = sensorDevice
        /\ sensorDevice' # sensorDevice =>
               /\ cbPc # "idle"
               /\ hist.event.kind = "advertising_report"
               /\ hist.event.data = hci_data
               /\ ForDevice(hci_data)
      ]_vars

\* A report of another address that carries a valid Govee measurement has
\* been handled as the second event and the aggregator is as it was created.
C19_Witness ==
    /\ hist.packets = 2
    /\ hist.event.kind = "advertising_report"
    /\ hist.event.data = Report(OtherMacLE, FlagsRecord(5) \o GapRecord(GAP_MFG_DATA, PayloadH5075(215450, 90)), 196)
    /\ cbPc = "idle"
    /\ sensorDevice = NewSensorDevice(DeviceMac, DeviceParams(config))

-----------------------------------------------------------------------------
(* The GAP walk, checked under SpecParse *)

\* The record of an iteration claims bytes after the last byte of the GAP
\* region, which is the byte before the RSSI byte.
RunsPastEnd(data, step) == step.pos + step.length > Len(data) - 2

\* C20: the GAP walk terminates: every iteration starts before the end offset
\* len(data) - 1 and advances the position by length + 1 >= 1, the walk goes
\* on until the position reaches or exceeds the end offset, a record whose
\* declared length runs past the end of the GAP region ends the walk without
\* an error, and no index at or beyond len(data) is read.
C20_GapWalkTerminates ==
    Parsed =>
        LET steps == GapWalkSteps(hci_data, 10)
            n == Len(steps)
            end_offset == Len(hci_data) - 1
        IN  /\ \A i \in 1..n :
                  /\ steps[i].pos < end_offset
                  /\ steps[i].length + 1 >= 1
                  /\ i < n => steps[i + 1].pos = steps[i].pos + steps[i].length + 1
                  /\ IndicesRead(hci_data, steps[i]) \subseteq 0..(Len(hci_data) - 1)
                  /\ RunsPastEnd(hci_data, steps[i]) =>
                         /\ i = n
                         /\ steps[i].raised = ""
            /\ n > 0 =>
                  \/ steps[n].raised # ""
                  \/ steps[n].pos + steps[n].length + 1 >= end_offset
            /\ (n > 0 /\ steps[n].raised # "") =>
                  parsed_advertisement.exc = steps[n].raised

-----------------------------------------------------------------------------
(* One reporting tick under every combination of the five entity options,
   with advertisements arriving at any point of it *)

EntityConfigs ==
    { [DefaultConfig EXCEPT !.temperature_entities = t,
                            !.humidity_entities = h,
                            !.rssi_entities = r,
                            !.battery_entities = b,
                            !.num_samples_entities = n] :
      t \in BOOLEAN, h \in BOOLEAN, r \in BOOLEAN, b \in BOOLEAN,
      n \in BOOLEAN }

\* setup_platform as in Init, for each of the configurations
InitEntityOptions ==
    /\ brand \in DeviceBrand
    /\ config \in EntityConfigs
    /\ sensorDevice = NewSensorDevice(DeviceMac, DeviceParams(config))
    /\ hassEntities = InitEntities(config)
    /\ hci_data = <<>>
    /\ parsed_advertisement = NewObject
    /\ cbPc = "idle"
    /\ cbTmp = 0
    /\ rpPc = "idle"
    /\ rpLocals = NoLocals
    /\ hist = SystemHist

NextEntityOptions == CallbackLoop \/ ReporterPublish

SpecEntityOptions == InitEntityOptions /\ [][NextEntityOptions]_vars

\* The places of report_device_data that assign to entities[curr_entity_index]
IndexingLines == {"l176", "l185", "l193", "l198", "l203"}

\* The kind of entity the section of each of these places is written for
KindOfSection(pc) ==
    IF pc = "l176" THEN "temperature"
    ELSE IF pc = "l185" THEN "humidity"
    ELSE IF pc = "l193" THEN "rssi"
    ELSE IF pc = "l198" THEN "battery"
    ELSE "num_samples"

\* The value the section at pc assigns to the entity's state
ValueOfSection(pc) ==
    IF pc = "l176"
    THEN (IF config.use_median THEN median_temperature(sensorDevice)
          ELSE rpLocals.temperature_mean)
    ELSE IF pc = "l185"
    THEN (IF config.use_median THEN median_humidity(sensorDevice)
          ELSE rpLocals.humidity_mean)
    ELSE IF pc = "l193" THEN rssi(sensorDevice)
    ELSE IF pc = "l198" THEN battery_percentage(sensorDevice)
    ELSE Some(sensorDevice.num_measurements)

\* C21: under every combination of the five entity options, whenever
\* report_device_data is about to assign through curr_entity_index the index
\* is inside the entity list and selects the entity init_wrapper created for
\* the kind of the section, the assignment gives that entity the section's
\* value and leaves every other entity as it was, and no tick ends in an
\* IndexError.
C21_IndexSelectsOwnKind ==
    /\ [](rpPc # "IndexError")
    /\ [](rpPc \in IndexingLines =>
            /\ rpLocals.curr_entity_index < Len(hassEntities)
            /\ hassEntities[rpLocals.curr_entity_index + 1].kind
                   = KindOfSection(rpPc))
    /\ [][(rpPc \in IndexingLines /\ rpPc' # rpPc) =>
            /\ Len(hassEntities') = Len(hassEntities)
            /\ \A j \in 1..Len(hassEntities) :
                  IF j = rpLocals.curr_entity_index + 1
                  THEN /\ hassEntities'[j].kind = KindOfSection(rpPc)
                       /\ hassEntities'[j].state = ValueOfSection(rpPc)
                  ELSE hassEntities'[j] = hassEntities[j]
         ]_vars

\* With only the RSSI and the sample-count entities configured, a tick that
\* followed one measurement has written the RSSI to the first entity and the
\* count 1 to the second and is about to reset the device.
C21_Witness ==
    /\ rpPc = "l238"
    /\ ~config.temperature_entities
    /\ ~config.humidity_entities
    /\ ~config.battery_entities
    /\ Len(hassEntities) = 2
    /\ hassEntities[1].kind = "rssi"
    /\ ~IsNone(hassEntities[1].state)
    /\ hassEntities[2].kind = "num_samples"
    /\ hassEntities[2].state = Some(1)

-----------------------------------------------------------------------------
(* The aggregator between calls, checked under Spec *)

\* update() has executed some but not all of its statements
UpdatePartWay == cbPc \in {"u272", "u278", "u288", "u291", "u292", "u292s"}

\* reset() has executed some but not all of its assignments
ResetPartWay == rpPc = "l238" /\ rpLocals.reset_k > 0

\* C22: whenever neither update() nor reset() is part-way through, under any
\* interleaving of the callback thread and the reporting thread, last_raw_data
\* is None exactly when num_measurements is 0 and none of the temperature,
\* humidity, battery-percentage and battery-millivolt lists is longer than
\* num_measurements.
C22_CountMatchesData ==
    (~UpdatePartWay /\ ~ResetPartWay) =>
        /\ IsNone(sensorDevice.latest_raw_data_str)
               <=> sensorDevice.num_measurements = 0
        /\ Len(sensorDevice.temperature_measurements)
               <= sensorDevice.num_measurements
        /\ Len(sensorDevice.humidity_measurements)
               <= sensorDevice.num_measurements
        /\ Len(sensorDevice.battery_percentage_measurements)
               <= sensorDevice.num_measurements
        /\ Len(sensorDevice.battery_millivolt_measurements)
               <= sensorDevice.num_measurements

=============================================================================
